---- MODULE Spec2Model ----
(***************************************************************************)
(* Model of add_luts_by_rules.py: the rule classes, and the LUTApplier     *)
(* batch loop (apply_luts, _process_item, _apply_lut_to_item).             *)
(*                                                                         *)
(* The host application (DaVinci Resolve) is the environment.  A timeline  *)
(* item is known to the script only through the answers the host gives to  *)
(* its calls (GetName, GetMediaPoolItem, GetClipProperty, GetClipColor,    *)
(* GetNodeGraph, GetNumNodes, SetLUT) and the file system through          *)
(* os.path.exists / os.access; these answers are the inputs of the         *)
(* actions, drawn when the loop reaches the item, and kept in `visited`.   *)
(* A Python string is a TLA+ string, a formatted message is the sequence   *)
(* of its pieces, a path is the sequence of its components ("" is <<>>).   *)
(***************************************************************************)
EXTENDS Integers, Sequences, FiniteSets, TLC

VARIABLES
    rules,              \* LUTApplier.rules
    timelines,          \* LUTApplier.timelines (handles; a handle is also the name GetName returns)
    results,            \* LUTApplier.results
    pc,                 \* where apply_luts is
    timeline_idx,       \* position of `for timeline in self.timelines`
    track_idx,          \* track_idx of `for track_idx in range(1, video_track_count + 1)`
    item_idx,           \* position of `for item in items`
    video_track_count,  \* local of apply_luts
    items,              \* local of apply_luts: the list GetItemListInTrack returned
    listed,             \* history: every item the host listed so far, in order
    visited,            \* history: every item the loop reached, with the host's answers for it
    calls,              \* history: every SetLUT call issued to the host
    preview,            \* what preview_matches returned, NotPreviewed before it ran
    rows,               \* AddLUTDialog: the rule rows of the form
    StatusLabel,        \* AddLUTDialog: itm["StatusLabel"].Text, in pieces
    fs,                 \* the files under the LUT folders, in os.walk order
    available_luts,     \* LUTManager.available_luts
    call,               \* the last call of a helper or LUTManager method: argument and return
    discovered          \* ProjectScanner.discovered

vars == <<rules, timelines, results, pc, timeline_idx, track_idx, item_idx,
          video_track_count, items, listed, visited, calls,
          preview, rows, StatusLabel, fs, available_luts, call, discovered>>

\* what an apply_luts run never touches
others == <<preview, rows, StatusLabel, fs, available_luts, call, discovered>>

----------------------------------------------------------------------------
(* Bounds *)

MaxTimelines == 2
MaxTracks == 2
MaxClips == 2
MaxRules == 2
MaxNodes == 1

----------------------------------------------------------------------------
(* The values the inputs are drawn from *)

Categories == {"Codec", "ClipColor"}

\* the value a rule of each category is authored with
RuleValue(category) == IF category = "Codec" THEN "H.264" ELSE "Blue"

CodecValues == {"H.264", "ProRes"}
ColorValues == {"Blue", ""}

RemovalPath == <<>>
WarmCube == <<"opt", "resolve", "LUT", "warm.cube">>
LutPaths == {RemovalPath, WarmCube}

TargetNodes == 0 .. MaxNodes

\* Rule.__init__
Rule(category, value, lut_path, target_node) ==
    [category |-> category, value |-> value, lut_path |-> lut_path, target_node |-> target_node]

RuleUniverse ==
    {Rule(c, RuleValue(c), p, n) : c \in Categories, p \in LutPaths, n \in TargetNodes}

RECURSIVE SeqsUpTo(_, _)
SeqsUpTo(S, n) ==
    IF n = 0 THEN {<<>>}
    ELSE LET shorter == SeqsUpTo(S, n - 1)
         IN  shorter \cup {Append(s, x) : s \in {q \in shorter : Len(q) = n - 1}, x \in S}

RuleLists == SeqsUpTo(RuleUniverse, MaxRules)

\* The host's answers for one item.  An answer the code can never ask for,
\* because an earlier answer ends the item, is "unread".
Unread == [name |-> "ok", media |-> "ok", codec |-> "unread", color |-> "unread",
           graph |-> "unread", count |-> "unread", numNodes |-> 0,
           file |-> "unread", setLUT |-> "unread"]

\* the item itself: its name, media reference, codec and clip colour
ItemReads ==
    {[Unread EXCEPT !.name = nm, !.media = "ok", !.codec = cd, !.color = cl] :
        nm \in {"ok", "raises"}, cd \in CodecValues, cl \in ColorValues}
    \cup
    {[Unread EXCEPT !.name = nm, !.media = m, !.color = cl] :
        nm \in {"ok", "raises"}, m \in {"none", "raises"}, cl \in ColorValues}

\* The answers _apply_lut_to_item asks for when it runs for `rule`: the node
\* graph, the node count, then (stage in range) the LUT file unless the rule
\* removes, then SetLUT
ApplyReads(c, rule) ==
    {[c EXCEPT !.graph = g] : g \in {"none", "raises"}}
    \cup {[c EXCEPT !.graph = "ok", !.count = k] : k \in {"none", "raises"}}
    \cup UNION {
        LET d == [c EXCEPT !.graph = "ok", !.count = "ok", !.numNodes = n]
        IN  IF rule.target_node < 1 \/ rule.target_node > n
            THEN {d}
            ELSE IF rule.lut_path = <<>>
            THEN {[d EXCEPT !.setLUT = s] : s \in {"true", "false", "raises"}}
            ELSE {[d EXCEPT !.file = f] : f \in {"missing", "unreadable"}}
                 \cup {[d EXCEPT !.file = "ok", !.setLUT = s] : s \in {"true", "false", "raises"}}
        : n \in 0 .. MaxNodes}

----------------------------------------------------------------------------
(* Helpers *)

Digits == <<"0", "1", "2", "3", "4", "5", "6", "7", "8", "9">>

\* str(n) of a small integer, as f-strings format it
NumStr(n) == Digits[n + 1]

\* os.path.basename
basename(path) == IF path = <<>> THEN "" ELSE path[Len(path)]

\* str(path) inside a message: the components, in order
PathStr(path) == path

----------------------------------------------------------------------------
(* Rule classes *)

\* matches without the comparison against the rule's value
matchesAnyValue(rule, clip) ==
    IF rule.category = "Codec"
    THEN /\ clip.media = "ok"
         /\ clip.codec # ""
    ELSE /\ clip.media = "ok"
         /\ clip.color # ""

\* CodecRule.matches / ClipColorRule.matches
matches(rule, clip) ==
    IF rule.category = "Codec"
    THEN /\ clip.media = "ok"
         /\ clip.codec # ""
         /\ clip.codec = rule.value
    ELSE /\ clip.media = "ok"
         /\ clip.color # ""
         /\ clip.color = rule.value

\* CodecRule.get_property_value / ClipColorRule.get_property_value
get_property_value(rule, clip) ==
    IF rule.category = "Codec"
    THEN IF clip.media = "ok" THEN clip.codec ELSE ""
    ELSE clip.color

----------------------------------------------------------------------------
(* LUTApplier *)

\* LUTApplier.__init__
NewResults ==
    [clips_processed |-> 0, clips_skipped |-> 0, luts_applied |-> 0, errors |-> 0,
     details |-> <<>>]

\* what _apply_lut_to_item returns, and whether it issued SetLUT
Outcome(success, msg, called) == [success |-> success, msg |-> msg, called |-> called]

\* `except Exception as e: return False, f"Exception: {str(e)}"`
ExceptionMsg == <<"Exception: ", "host error">>

\* os.path.exists / os.access of the rule's path: "" never exists
FileState(clip, lut_path) == IF lut_path = <<>> THEN "missing" ELSE clip.file

\* TargetNodeError without the upper check
TargetNodeErrorNoUpper(target_node, node_count) ==
    IF target_node < 1
    THEN <<"Invalid target node ", NumStr(target_node), " (must be >= 1)">>
    ELSE <<>>

\* TargetNodeError reporting the target node where the node count belongs
TargetNodeErrorShowsTarget(target_node, node_count) ==
    IF target_node < 1
    THEN <<"Invalid target node ", NumStr(target_node), " (must be >= 1)">>
    ELSE IF target_node > node_count
    THEN <<"Target node ", NumStr(target_node), " out of range (clip has ",
           NumStr(target_node),
           " node(s)). Add nodes in Color page or change target node.">>
    ELSE <<>>

\* _apply_lut_to_item step 3: the message of the failed range check, <<>> if none
TargetNodeError(target_node, node_count) ==
    IF target_node < 1
    THEN <<"Invalid target node ", NumStr(target_node), " (must be >= 1)">>
    ELSE IF target_node > node_count
    THEN <<"Target node ", NumStr(target_node), " out of range (clip has ",
           NumStr(node_count),
           " node(s)). Add nodes in Color page or change target node.">>
    ELSE <<>>

\* LutFileError without the os.access check
LutFileErrorExistsOnly(clip, lut_path) ==
    IF lut_path # <<>> /\ FileState(clip, lut_path) = "missing"
    THEN <<"LUT file not found: ">> \o PathStr(lut_path)
    ELSE <<>>

\* _apply_lut_to_item steps 4 to 6: the message of the failed file check, <<>> if none
LutFileError(clip, lut_path) ==
    LET is_removal == lut_path = <<>>
    IN  IF is_removal THEN <<>>
        ELSE IF FileState(clip, lut_path) = "missing"
        THEN <<"LUT file not found: ">> \o PathStr(lut_path)
        ELSE IF FileState(clip, lut_path) = "unreadable"
        THEN <<"LUT file not readable: ">> \o PathStr(lut_path)
        ELSE <<>>

\* SetLUT with the host's return value ignored
SetLUTIgnoresResult(clip, rule) ==
    IF clip.setLUT = "raises" THEN Outcome(FALSE, ExceptionMsg, TRUE)
    ELSE Outcome(TRUE, IF rule.lut_path = <<>> THEN <<"Removed">> ELSE <<"Applied">>, TRUE)

\* _apply_lut_to_item step 7: graph.SetLUT(rule.target_node, rule.lut_path) is issued
SetLUT(clip, rule) ==
    LET is_removal == rule.lut_path = <<>>
    IN  IF clip.setLUT = "raises" THEN Outcome(FALSE, ExceptionMsg, TRUE)
        ELSE IF clip.setLUT # "true"
        THEN IF is_removal
             THEN Outcome(FALSE, <<"SetLUT() returned False (failed to remove LUT from node ",
                                   NumStr(rule.target_node), ")">>, TRUE)
             ELSE Outcome(FALSE, <<"SetLUT() returned False (Resolve rejected the LUT file). Check LUT format and validity.">>,
                          TRUE)
        ELSE Outcome(TRUE, IF is_removal THEN <<"Removed">> ELSE <<"Applied">>, TRUE)

\* _apply_lut_to_item checking the LUT file before the target node
_apply_lut_to_itemFileFirst(clip, rule) ==
    IF clip.media = "raises" THEN Outcome(FALSE, ExceptionMsg, FALSE)
    ELSE IF clip.media # "ok"
    THEN Outcome(FALSE, <<"Clip is a generator/title (no color grading support)">>, FALSE)
    ELSE IF clip.graph = "raises" THEN Outcome(FALSE, ExceptionMsg, FALSE)
    ELSE IF clip.graph # "ok"
    THEN Outcome(FALSE, <<"Failed to get node graph (layer 1)">>, FALSE)
    ELSE IF clip.count = "raises" THEN Outcome(FALSE, ExceptionMsg, FALSE)
    ELSE IF clip.count # "ok"
    THEN Outcome(FALSE, <<"Failed to get node count from graph">>, FALSE)
    ELSE IF LutFileError(clip, rule.lut_path) # <<>>
    THEN Outcome(FALSE, LutFileError(clip, rule.lut_path), FALSE)
    ELSE IF TargetNodeError(rule.target_node, clip.numNodes) # <<>>
    THEN Outcome(FALSE, TargetNodeError(rule.target_node, clip.numNodes), FALSE)
    ELSE SetLUT(clip, rule)

\* _apply_lut_to_item
_apply_lut_to_item(clip, rule) ==
    IF clip.media = "raises" THEN Outcome(FALSE, ExceptionMsg, FALSE)
    ELSE IF clip.media # "ok"
    THEN Outcome(FALSE, <<"Clip is a generator/title (no color grading support)">>, FALSE)
    ELSE IF clip.graph = "raises" THEN Outcome(FALSE, ExceptionMsg, FALSE)
    ELSE IF clip.graph # "ok"
    THEN Outcome(FALSE, <<"Failed to get node graph (layer 1)">>, FALSE)
    ELSE IF clip.count = "raises" THEN Outcome(FALSE, ExceptionMsg, FALSE)
    ELSE IF clip.count # "ok"
    THEN Outcome(FALSE, <<"Failed to get node count from graph">>, FALSE)
    ELSE IF TargetNodeError(rule.target_node, clip.numNodes) # <<>>
    THEN Outcome(FALSE, TargetNodeError(rule.target_node, clip.numNodes), FALSE)
    ELSE IF LutFileError(clip, rule.lut_path) # <<>>
    THEN Outcome(FALSE, LutFileError(clip, rule.lut_path), FALSE)
    ELSE SetLUT(clip, rule)

\* FirstMatch without the `break`: the last matching rule wins
LastMatch(rls, clip) ==
    LET hits == {j \in 1 .. Len(rls) : matches(rls[j], clip)}
    IN  IF hits = {} THEN 0 ELSE CHOOSE j \in hits : \A m \in hits : j >= m

\* _process_item, `for rule in self.rules: if rule.matches(item): ... break`:
\* the position of the rule the loop body runs for, 0 if it runs for none
FirstMatch(rls, clip) ==
    LET hits == {j \in 1 .. Len(rls) : matches(rls[j], clip)}
    IN  IF hits = {} THEN 0 ELSE CHOOSE j \in hits : \A m \in hits : j <= m

\* The host's answers for an item whose own reads are c: those of
\* _apply_lut_to_item too when _process_item calls it
HostAnswers(c) ==
    IF c.name = "ok" /\ c.media = "ok" /\ FirstMatch(rules, c) # 0
    THEN ApplyReads(c, rules[FirstMatch(rules, c)])
    ELSE {c}

\* LutLabel without the removal case
LutLabelBasename(lut_path) == basename(lut_path)

\* the "lut" entry of a detail record
LutLabel(lut_path) == IF lut_path = <<>> THEN "(Removed)" ELSE basename(lut_path)

\* _process_item, the record appended when _apply_lut_to_item succeeded
SuccessDetail(item, clip, rule, timeline_name) ==
    [timeline |-> timeline_name, clip |-> item,
     property |-> get_property_value(rule, clip),
     lut |-> LutLabel(rule.lut_path),
     target_node |-> rule.target_node, success |-> TRUE]

\* _process_item, the record appended when _apply_lut_to_item failed
ErrorDetail(item, rule, timeline_name, status_msg) ==
    [timeline |-> timeline_name, clip |-> item,
     lut |-> LutLabel(rule.lut_path),
     target_node |-> rule.target_node, error |-> status_msg, success |-> FALSE]

\* _process_item, `if not is_media_clip: self.results["clips_skipped"] += 1; return`
SkipItem(res) == [res EXCEPT !.clips_skipped = @ + 1]

\* RecordApplied putting the new record in front of the list
RecordAppliedInFront(res, detail) ==
    [res EXCEPT !.luts_applied = @ + 1, !.details = <<detail>> \o @]

\* _process_item, `if success:` branch: count and append
RecordApplied(res, detail) ==
    [res EXCEPT !.luts_applied = @ + 1, !.details = Append(@, detail)]

\* RecordError counting the failure as an applied LUT
RecordErrorCountsApplied(res, detail) ==
    [res EXCEPT !.luts_applied = @ + 1, !.details = Append(@, detail)]

\* RecordError that counts the error and appends nothing
RecordErrorNoDetail(res, detail) == [res EXCEPT !.errors = @ + 1]

\* _process_item, `else:` branch: count and append
RecordError(res, detail) ==
    [res EXCEPT !.errors = @ + 1, !.details = Append(@, detail)]

\* NoMatch counting the item as skipped
NoMatchSkipped(res) == [res EXCEPT !.clips_skipped = @ + 1]

\* _process_item, the rule loop ended without a match: matched_any_rule stays
\* False and nothing is counted or appended
NoMatch(res) == res

\* _process_item, the body of the rule loop for the matching rule
ProcessMatch(res, item, clip, rule, timeline_name) ==
    LET out == _apply_lut_to_item(clip, rule)
    IN  IF out.success
        THEN RecordApplied(res, SuccessDetail(item, clip, rule, timeline_name))
        ELSE RecordError(res, ErrorDetail(item, rule, timeline_name, out.msg))

\* _process_item: the results after the item (GetName has returned)
_process_item(res, item, clip, timeline_name) ==
    LET j == FirstMatch(rules, clip)
    IN  IF clip.media # "ok" THEN SkipItem(res)
        ELSE IF j = 0 THEN NoMatch(res)
        ELSE ProcessMatch(res, item, clip, rules[j], timeline_name)

\* the SetLUT calls _process_item issues for the item
SetLUTCalls(item, clip) ==
    LET j == FirstMatch(rules, clip)
    IN  IF clip.media # "ok" \/ j = 0 \/ ~_apply_lut_to_item(clip, rules[j]).called
        THEN <<>>
        ELSE <<[item |-> item, node |-> rules[j].target_node, path |-> rules[j].lut_path,
                result |-> clip.setLUT]>>

\* preview_matches has not been called
NotPreviewed == [status |-> "not called", matches |-> <<>>]

\* no helper or LUTManager method has been called
NoCall == [op |-> "none", arg |-> "", ret |-> ""]

\* ProjectScanner.__init__
NewDiscovered == [codecs |-> {}, resolutions |-> {}, frame_rates |-> {}, clip_colors |-> {}]

----------------------------------------------------------------------------
(* State machine *)

Init ==
    /\ rules \in RuleLists
    /\ timelines \in {[j \in 1 .. n |-> j] : n \in 0 .. MaxTimelines}
    /\ results = NewResults
    /\ pc = "constructed"
    /\ timeline_idx = 0
    /\ track_idx = 0
    /\ item_idx = 0
    /\ video_track_count = 0
    /\ items = <<>>
    /\ listed = <<>>
    /\ visited = <<>>
    /\ calls = <<>>
    /\ preview = NotPreviewed
    /\ rows = <<>>
    /\ StatusLabel = <<>>
    /\ fs = <<>>
    /\ available_luts = <<>>
    /\ call = NoCall
    /\ discovered = NewDiscovered

\* apply_luts without the `if not self.rules` guard
apply_lutsWithoutGuard ==
    /\ pc = "constructed"
    /\ pc' = "timelines"
    /\ timeline_idx' = 1
    /\ UNCHANGED <<rules, timelines, results, track_idx, item_idx, video_track_count,
                   items, listed, visited, calls>>
    /\ UNCHANGED others

\* apply_luts is called: `if not self.rules: return self.results`
apply_luts ==
    /\ pc = "constructed"
    /\ pc' = IF rules = <<>> THEN "returned" ELSE "timelines"
    /\ timeline_idx' = 1
    /\ UNCHANGED <<rules, timelines, results, track_idx, item_idx, video_track_count,
                   items, listed, visited, calls>>
    /\ UNCHANGED others

\* `for timeline in self.timelines`: GetName and GetTrackCount answer
ForTimeline ==
    /\ pc = "timelines"
    /\ timeline_idx <= Len(timelines)
    /\ \E n \in 0 .. MaxTracks :
        /\ video_track_count' = n
        /\ track_idx' = 1
        /\ pc' = "tracks"
    /\ UNCHANGED <<rules, timelines, results, timeline_idx, item_idx, items, listed,
                   visited, calls>>
    /\ UNCHANGED others

\* a timeline's GetName, GetTrackCount or GetItemListInTrack raises: nothing
\* in apply_luts catches it
TimelineReadRaises ==
    /\ \/ pc = "timelines" /\ timeline_idx <= Len(timelines)
       \/ pc = "tracks" /\ track_idx <= video_track_count
    /\ pc' = "raised"
    /\ UNCHANGED <<rules, timelines, results, timeline_idx, track_idx, item_idx,
                   video_track_count, items, listed, visited, calls>>
    /\ UNCHANGED others

\* `return self.results` after the last timeline
Return ==
    /\ pc = "timelines"
    /\ timeline_idx > Len(timelines)
    /\ pc' = "returned"
    /\ UNCHANGED <<rules, timelines, results, timeline_idx, track_idx, item_idx,
                   video_track_count, items, listed, visited, calls>>
    /\ UNCHANGED others

\* `for track_idx in range(...)`: GetItemListInTrack answers with n items
ForTrack ==
    /\ pc = "tracks"
    /\ track_idx <= video_track_count
    /\ \E n \in 0 .. (MaxClips - Len(listed)) :
        LET got == [j \in 1 .. n |-> <<timeline_idx, track_idx, j>>]
        IN  /\ items' = got
            /\ listed' = listed \o got
    /\ item_idx' = 1
    /\ pc' = "items"
    /\ UNCHANGED <<rules, timelines, results, timeline_idx, track_idx, video_track_count,
                   visited, calls>>
    /\ UNCHANGED others

\* the track loop is exhausted: next timeline
EndTimeline ==
    /\ pc = "tracks"
    /\ track_idx > video_track_count
    /\ timeline_idx' = timeline_idx + 1
    /\ pc' = "timelines"
    /\ UNCHANGED <<rules, timelines, results, track_idx, item_idx, video_track_count,
                   items, listed, visited, calls>>
    /\ UNCHANGED others

\* the item loop is exhausted: next track
EndTrack ==
    /\ pc = "items"
    /\ item_idx > Len(items)
    /\ track_idx' = track_idx + 1
    /\ pc' = "tracks"
    /\ UNCHANGED <<rules, timelines, results, timeline_idx, item_idx, video_track_count,
                   items, listed, visited, calls>>
    /\ UNCHANGED others

\* `for item in items`: clips_processed += 1; self._process_item(item, ...)
ForItem ==
    /\ pc = "items"
    /\ item_idx <= Len(items)
    /\ \E c \in ItemReads : \E clip \in HostAnswers(c) :
        LET item == items[item_idx]
            counted == [results EXCEPT !.clips_processed = @ + 1]
        IN  /\ visited' = Append(visited, [item |-> item, clip |-> clip])
            /\ IF clip.name = "raises"
               THEN /\ results' = counted
                    /\ calls' = calls
                    /\ pc' = "raised"
                    /\ item_idx' = item_idx
               ELSE /\ results' = _process_item(counted, item, clip, timelines[timeline_idx])
                    /\ calls' = calls \o SetLUTCalls(item, clip)
                    /\ pc' = "items"
                    /\ item_idx' = item_idx + 1
    /\ UNCHANGED <<rules, timelines, timeline_idx, track_idx, video_track_count, items,
                   listed>>
    /\ UNCHANGED others

Next ==
    \/ apply_luts
    \/ ForTimeline
    \/ TimelineReadRaises
    \/ Return
    \/ ForTrack
    \/ EndTimeline
    \/ EndTrack
    \/ ForItem

Spec == Init /\ [][Next]_vars

----------------------------------------------------------------------------
(* One timeline, one rule, up to three items *)

ScenarioClips == 3

\* an applier for the rule {Codec, "H.264", warm.cube, node 1} on one timeline
ScenarioInit ==
    /\ rules = <<Rule("Codec", "H.264", WarmCube, 1)>>
    /\ timelines = <<1>>
    /\ results = NewResults
    /\ pc = "constructed"
    /\ timeline_idx = 0
    /\ track_idx = 0
    /\ item_idx = 0
    /\ video_track_count = 0
    /\ items = <<>>
    /\ listed = <<>>
    /\ visited = <<>>
    /\ calls = <<>>
    /\ preview = NotPreviewed
    /\ rows = <<>>
    /\ StatusLabel = <<>>
    /\ fs = <<>>
    /\ available_luts = <<>>
    /\ call = NoCall
    /\ discovered = NewDiscovered

\* `for track_idx in range(...)`: GetItemListInTrack answers with n items, the
\* timeline holding ScenarioClips at most
ForTrackScenario ==
    /\ pc = "tracks"
    /\ track_idx <= video_track_count
    /\ \E n \in 0 .. (ScenarioClips - Len(listed)) :
        LET got == [j \in 1 .. n |-> <<timeline_idx, track_idx, j>>]
        IN  /\ items' = got
            /\ listed' = listed \o got
    /\ item_idx' = 1
    /\ pc' = "items"
    /\ UNCHANGED <<rules, timelines, results, timeline_idx, track_idx, video_track_count,
                   visited, calls>>
    /\ UNCHANGED others

ScenarioNext ==
    \/ apply_luts
    \/ ForTimeline
    \/ TimelineReadRaises
    \/ Return
    \/ ForTrackScenario
    \/ EndTimeline
    \/ EndTrack
    \/ ForItem

ScenarioSpec == ScenarioInit /\ [][ScenarioNext]_vars

----------------------------------------------------------------------------
(* A second run on the same LUTApplier *)

\* apply_luts is called again on the applier whose first run has returned.
\* The first call returned self.results itself (lines 499, 516), so what its
\* caller holds is the dict the second run goes on writing to; `call` keeps
\* what that dict held when the first call returned.
apply_lutsAgain ==
    /\ pc = "returned"
    /\ call.op = "none"
    /\ call' = [op |-> "apply_luts", arg |-> <<>>, ret |-> results]
    /\ pc' = IF rules = <<>> THEN "returned" ELSE "timelines"
    /\ timeline_idx' = 1
    /\ UNCHANGED <<rules, timelines, results, track_idx, item_idx, video_track_count,
                   items, listed, visited, calls>>
    /\ UNCHANGED <<preview, rows, StatusLabel, fs, available_luts, discovered>>

\* appliers with at most one rule
RerunInit == Init /\ Len(rules) <= 1

RerunNext == Next \/ apply_lutsAgain

RerunSpec == RerunInit /\ [][RerunNext]_vars

----------------------------------------------------------------------------
(* What the run did, read off the history *)

Details == results.details

\* positions of the detail records appended for item x
DetailsOf(x) == {d \in 1 .. Len(Details) : Details[d].clip = x}

\* positions of the SetLUT calls issued for item x
CallsOf(x) == {k \in 1 .. Len(calls) : calls[k].item = x}

\* the host's answers for a visited item x
ClipOf(x) == (CHOOSE v \in {visited[j] : j \in 1 .. Len(visited)} : v.item = x).clip

IsVisited(x) == \E j \in 1 .. Len(visited) : visited[j].item = x

\* rule f is the first rule of the list, in list order, that matches
IsFirstMatching(f, clip) ==
    /\ f \in 1 .. Len(rules)
    /\ matches(rules[f], clip)
    /\ \A m \in 1 .. (f - 1) : ~matches(rules[m], clip)

\* _process_item called _apply_lut_to_item for the item with rule f
Applying(v, f) ==
    /\ v.clip.name = "ok"
    /\ v.clip.media = "ok"
    /\ IsFirstMatching(f, v.clip)

\* the item has exactly one outcome record, an error one
EndsInError(x) ==
    /\ Cardinality(DetailsOf(x)) = 1
    /\ \A d \in DetailsOf(x) : ~Details[d].success

\* visited items without a resolvable media reference whose GetName answered
WithoutMediaNamed ==
    {j \in 1 .. Len(visited) :
        visited[j].clip.name = "ok" /\ visited[j].clip.media # "ok"}

\* the exception of a host call made for an item left apply_luts
ItemRaised ==
    /\ pc = "raised"
    /\ visited # <<>>
    /\ visited[Len(visited)].clip.name = "raises"

----------------------------------------------------------------------------
(* LUTManager *)

\* the removal option get_lut_display_names lists first and
\* get_lut_path_by_display_name resolves to ""
RemovalOption == "(None - Remove LUT)"

MaxFiles == 2

\* _setup_lut_folders on Linux: "/opt/resolve/LUT/" and
\* "~/.local/share/DaVinciResolve/LUT/"; Film is a subfolder of the first
SystemLut == <<"opt", "resolve", "LUT">>
FilmDir == SystemLut \o <<"Film">>
UserLut == <<"home", ".local", "share", "DaVinciResolve", "LUT">>

\* the order in which scan_luts reaches the folders: lut_folders in order,
\* os.walk top-down below each
WalkOrder == <<SystemLut, FilmDir, UserLut>>

FileNames == {"warm.cube", "WARM.CUBE", "cool.3dl", "film.ilut", "log.dat", "notes.txt"}

\* a file under a LUT folder: os.path.join(root, file), and whether
\* os.access(path, os.R_OK) holds
File(root, file, readable) == [path |-> root \o <<file>>, readable |-> readable]

FileUniverse ==
    {File(WalkOrder[d], n, r) : d \in 1 .. Len(WalkOrder), n \in FileNames, r \in BOOLEAN}

\* position of the folder of a file in the walk
WalkIndex(f) ==
    CHOOSE d \in 1 .. Len(WalkOrder) : WalkOrder[d] = SubSeq(f.path, 1, Len(f.path) - 1)

\* what os.walk can yield: no path twice, folders in walk order, the files of
\* one folder in any order
FileSystems ==
    {w \in SeqsUpTo(FileUniverse, MaxFiles) :
        /\ \A a, b \in 1 .. Len(w) : a < b => w[a].path # w[b].path
        /\ \A a, b \in 1 .. Len(w) : a < b => WalkIndex(w[a]) <= WalkIndex(w[b])}

\* str.lower()
lower(s) == IF s = "WARM.CUBE" THEN "warm.cube" ELSE s

\* the characters of a file name from its last "." on
Ending(s) ==
    CASE s \in {"warm.cube", "nonexistent.cube"} -> ".cube"
      [] s = "WARM.CUBE" -> ".CUBE"
      [] s = "cool.3dl" -> ".3dl"
      [] s = "film.ilut" -> ".ilut"
      [] s = "log.dat" -> ".dat"
      [] s = "notes.txt" -> ".txt"
      [] OTHER -> ""

\* str.endswith(('.cube', '.3dl', '.ilut', '.dat'))
endswith(s) == Ending(s) \in {".cube", ".3dl", ".ilut", ".dat"}

\* every path component of the model, as Python orders strings (by code point)
StringOrder ==
    <<"", ".local", "DaVinciResolve", "Film", "LUT", "WARM.CUBE", "cool.3dl", "film.ilut",
      "home", "log.dat", "nonexistent.cube", "notes.txt", "opt", "resolve", "share",
      "warm.cube">>

Rank(s) == CHOOSE i \in 1 .. Len(StringOrder) : StringOrder[i] = s

\* path < other, as Python compares the two strings
RECURSIVE PathLess(_, _)
PathLess(path, other) ==
    IF other = <<>> THEN FALSE
    ELSE IF path = <<>> THEN TRUE
    ELSE IF Head(path) # Head(other) THEN Rank(Head(path)) < Rank(Head(other))
    ELSE PathLess(Tail(path), Tail(other))

\* sorted(...) of a list of paths, of a list of names
sorted(paths) == SortSeq(paths, PathLess)
sortedNames(names) == SortSeq(names, LAMBDA a, b : Rank(a) < Rank(b))

\* os.path.exists, os.access(path, os.R_OK)
exists(files, path) == \E i \in 1 .. Len(files) : files[i].path = path
access(files, path) == \E i \in 1 .. Len(files) : files[i].path = path /\ files[i].readable

\* scan_luts: self.available_luts after the walk
scan_luts(files) ==
    LET luts == SelectSeq(files, LAMBDA f : endswith(lower(basename(f.path))))
    IN  [i \in 1 .. Len(luts) |-> luts[i].path]

\* get_lut_display_names
get_lut_display_names(luts) ==
    <<RemovalOption>> \o sortedNames([i \in 1 .. Len(luts) |-> basename(luts[i])])

\* what get_lut_path_by_display_name returns: a path ("" is <<>>), or None
Path(path) == [found |-> TRUE, path |-> path]
None == [found |-> FALSE, path |-> <<>>]

\* get_lut_path_by_display_name
get_lut_path_by_display_name(luts, display_name) ==
    IF display_name = RemovalOption THEN Path(<<>>)
    ELSE LET hits == {i \in 1 .. Len(luts) : basename(luts[i]) = display_name}
         IN  IF hits = {} THEN None
             ELSE Path(luts[CHOOSE i \in hits : \A h \in hits : i <= h])

\* validate_lut_path comparing the extension without lower()
validate_lut_pathCaseSensitive(files, path) ==
    IF path = <<>> THEN TRUE
    ELSE IF ~exists(files, path) THEN FALSE
    ELSE endswith(basename(path))

\* validate_lut_path
validate_lut_path(files, path) ==
    IF path = <<>> THEN TRUE
    ELSE IF ~exists(files, path) THEN FALSE
    ELSE endswith(lower(basename(path)))

\* the display names and paths the methods are called with
DisplayNames == FileNames \cup {RemovalOption, "nonexistent.cube"}
Paths == {<<>>} \cup {f.path : f \in FileUniverse}

\* LUTManager.__init__, on a machine whose LUT folders hold `fs`
ManagerInit ==
    /\ fs \in FileSystems
    /\ available_luts = <<>>
    /\ call = NoCall
    /\ rules = <<>>
    /\ timelines = <<>>
    /\ results = NewResults
    /\ pc = "manager"
    /\ timeline_idx = 0
    /\ track_idx = 0
    /\ item_idx = 0
    /\ video_track_count = 0
    /\ items = <<>>
    /\ listed = <<>>
    /\ visited = <<>>
    /\ calls = <<>>
    /\ preview = NotPreviewed
    /\ rows = <<>>
    /\ StatusLabel = <<>>
    /\ discovered = NewDiscovered

\* what a LUTManager method never touches
applier == <<rules, timelines, results, pc, timeline_idx, track_idx, item_idx,
             video_track_count, items, listed, visited, calls, preview, rows, StatusLabel,
             discovered>>

\* scan_luts()
ScanLuts ==
    /\ available_luts' = scan_luts(fs)
    /\ call' = [op |-> "scan_luts", arg |-> <<>>, ret |-> sorted(scan_luts(fs))]
    /\ UNCHANGED <<fs, applier>>

\* get_lut_display_names()
GetLutDisplayNames ==
    /\ call' = [op |-> "get_lut_display_names", arg |-> <<>>,
                ret |-> get_lut_display_names(available_luts)]
    /\ UNCHANGED <<fs, available_luts, applier>>

\* get_lut_path_by_display_name(display_name)
GetLutPathByDisplayName ==
    /\ \E display_name \in DisplayNames :
        call' = [op |-> "get_lut_path_by_display_name", arg |-> display_name,
                 ret |-> get_lut_path_by_display_name(available_luts, display_name)]
    /\ UNCHANGED <<fs, available_luts, applier>>

\* validate_lut_path(path)
ValidateLutPath ==
    /\ \E path \in Paths :
        call' = [op |-> "validate_lut_path", arg |-> path,
                 ret |-> validate_lut_path(fs, path)]
    /\ UNCHANGED <<fs, available_luts, applier>>

ManagerNext ==
    \/ ScanLuts
    \/ GetLutDisplayNames
    \/ GetLutPathByDisplayName
    \/ ValidateLutPath

ManagerSpec == ManagerInit /\ [][ManagerNext]_vars

----------------------------------------------------------------------------
(* LUTApplier.preview_matches *)

\* the "lut" entry of a preview record
PreviewLabel(lut_path) == IF lut_path = <<>> THEN "(Remove LUT)" ELSE basename(lut_path)

\* What a call of preview_matches has done so far: its local list `matches`,
\* self.results, and the SetLUT calls the host has received
PreviewState(ms, res, cs) == [matches |-> ms, results |-> res, calls |-> cs]

\* preview_matches, the record appended for the matching rule
PreviewRecord(item, clip, rule, timeline_name) ==
    [timeline |-> timeline_name, clip |-> item,
     property |-> get_property_value(rule, clip),
     lut |-> PreviewLabel(rule.lut_path)]

\* PreviewItem running apply's loop body: the item is processed, not listed only
PreviewItemApplies(acc, item, clip, timeline_name) ==
    LET j == FirstMatch(rules, clip)
    IN  IF j = 0 THEN acc
        ELSE PreviewState(Append(acc.matches, PreviewRecord(item, clip, rules[j], timeline_name)),
                          _process_item(acc.results, item, clip, timeline_name),
                          acc.calls \o SetLUTCalls(item, clip))

\* PreviewItem without the `break`: one record for every matching rule
PreviewItemAllRules(acc, item, clip, timeline_name) ==
    LET hits == SelectSeq([j \in 1 .. Len(rules) |-> j], LAMBDA j : matches(rules[j], clip))
    IN  [acc EXCEPT !.matches =
            @ \o [h \in 1 .. Len(hits) |-> PreviewRecord(item, clip, rules[hits[h]], timeline_name)]]

\* preview_matches, the body of `for item in items` (GetName has returned):
\* `for rule in self.rules: if rule.matches(item): matches.append(...); break`
PreviewItem(acc, item, clip, timeline_name) ==
    LET j == FirstMatch(rules, clip)
    IN  IF j = 0 THEN acc
        ELSE [acc EXCEPT !.matches =
                Append(@, PreviewRecord(item, clip, rules[j], timeline_name))]

\* the host's answer to GetItemListInTrack("video", k) of timeline t, as it
\* answered apply_luts
GetItemListInTrack(t, k) == SelectSeq(listed, LAMBDA x : x[1] = t /\ x[2] = k)

\* preview_matches, `for item in items`
RECURSIVE PreviewItems(_, _, _)
PreviewItems(acc, its, timeline_name) ==
    IF its = <<>> THEN acc
    ELSE PreviewItems(PreviewItem(acc, Head(its), ClipOf(Head(its)), timeline_name),
                      Tail(its), timeline_name)

\* preview_matches, `for track_idx in range(1, video_track_count + 1)` from
\* track k on; a track the host listed no item for adds nothing
RECURSIVE PreviewTracks(_, _, _)
PreviewTracks(acc, t, k) ==
    IF k > MaxTracks THEN acc
    ELSE PreviewTracks(PreviewItems(acc, GetItemListInTrack(t, k), timelines[t]), t, k + 1)

\* preview_matches, `for timeline in self.timelines` from timeline t on
RECURSIVE PreviewTimelines(_, _)
PreviewTimelines(acc, t) ==
    IF t > Len(timelines) THEN acc
    ELSE PreviewTimelines(PreviewTracks(acc, t, 1), t + 1)

\* preview_matches is called on the applier after its run, the host answering
\* every read as it answered apply_luts.  A read that raised there raises
\* here (nothing in preview_matches catches it) and the list is lost; with no
\* rule apply_luts read nothing, and the reads of the walk may raise or not.
preview_matches ==
    /\ pc \in {"returned", "raised"}
    /\ preview = NotPreviewed
    /\ \E raises \in BOOLEAN :
        /\ pc = "raised" => raises
        /\ (pc = "returned" /\ (rules # <<>> \/ timelines = <<>>)) => ~raises
        /\ LET acc == IF raises THEN PreviewState(<<>>, results, calls)
                      ELSE PreviewTimelines(PreviewState(<<>>, results, calls), 1)
           IN  /\ preview' = [status |-> IF raises THEN "raised" ELSE "returned",
                              matches |-> acc.matches]
               /\ results' = acc.results
               /\ calls' = acc.calls
    /\ UNCHANGED <<rules, timelines, pc, timeline_idx, track_idx, item_idx,
                   video_track_count, items, listed, visited,
                   rows, StatusLabel, fs, available_luts, call, discovered>>

\* the rule lists previews are checked with: every category, removal and
\* application, one target node
PreviewRuleLists ==
    SeqsUpTo({r \in RuleUniverse : r.target_node = MaxNodes}, MaxRules)

PreviewInit == Init /\ rules \in PreviewRuleLists

PreviewNext == Next \/ preview_matches

PreviewSpec == PreviewInit /\ [][PreviewNext]_vars

----------------------------------------------------------------------------
(* AddLUTDialog *)

MaxRows == 2

\* one rule row of the form: EnableRule_i, RuleType_i, CodecValue_i,
\* ClipColorValue_i, LUTValue_i, NodeValue_i
Row(checked, rule_type, lut_display_name, target_node) ==
    [Checked |-> checked, RuleType |-> rule_type,
     CodecValue |-> "H.264", ClipColorValue |-> "Blue",
     LUTValue |-> lut_display_name, NodeValue |-> target_node]

RowUniverse ==
    {Row(e, t, l, MaxNodes) :
        e \in BOOLEAN, t \in {"Codec", "Clip Color"},
        l \in {RemovalOption, "warm.cube", "nonexistent.cube"}}

\* the forms: MaxRows rows each
Forms == {f \in SeqsUpTo(RowUniverse, MaxRows) : Len(f) = MaxRows}

\* RULE_VALUE_WIDGETS: the widget of the row that holds the rule's value
RuleValueOf(row) == IF row.RuleType = "Codec" THEN row.CodecValue ELSE row.ClipColorValue

\* RULE_CLASSES
RuleClass(rule_type) == IF rule_type = "Codec" THEN "Codec" ELSE "ClipColor"

\* get_rule_configs putting each new rule in front of the list
RECURSIVE get_rule_configsNewestFirst(_, _, _)
get_rule_configsNewestFirst(rws, luts, files) ==
    IF rws = <<>> THEN <<>>
    ELSE LET row == Head(rws)
             lut_path == get_lut_path_by_display_name(luts, row.LUTValue)
             rest == get_rule_configsNewestFirst(Tail(rws), luts, files)
         IN  IF ~row.Checked THEN rest
             ELSE IF ~lut_path.found THEN rest
             ELSE IF ~validate_lut_path(files, lut_path.path) THEN rest
             ELSE rest \o <<Rule(RuleClass(row.RuleType), RuleValueOf(row), lut_path.path,
                                 row.NodeValue)>>

\* get_rule_configs taking a name that does not resolve (None) for the
\* removal option ("")
RECURSIVE get_rule_configsNoneAsRemoval(_, _, _)
get_rule_configsNoneAsRemoval(rws, luts, files) ==
    IF rws = <<>> THEN <<>>
    ELSE LET row == Head(rws)
             lut_path == get_lut_path_by_display_name(luts, row.LUTValue)
             rest == get_rule_configsNoneAsRemoval(Tail(rws), luts, files)
         IN  IF ~row.Checked THEN rest
             ELSE IF ~validate_lut_path(files, lut_path.path) THEN rest
             ELSE <<Rule(RuleClass(row.RuleType), RuleValueOf(row), lut_path.path,
                         row.NodeValue)>> \o rest

\* get_rule_configs: the rules of the enabled rows, in row order
RECURSIVE get_rule_configs(_, _, _)
get_rule_configs(rws, luts, files) ==
    IF rws = <<>> THEN <<>>
    ELSE LET row == Head(rws)
             lut_path == get_lut_path_by_display_name(luts, row.LUTValue)
             rest == get_rule_configs(Tail(rws), luts, files)
         IN  IF ~row.Checked THEN rest
             ELSE IF ~lut_path.found THEN rest
             ELSE IF ~validate_lut_path(files, lut_path.path) THEN rest
             ELSE <<Rule(RuleClass(row.RuleType), RuleValueOf(row), lut_path.path,
                         row.NodeValue)>> \o rest

\* the dialog is open on one selected timeline: main() has scanned the LUT
\* folders, which held warm.cube (the file may have been deleted since), and
\* no handler has run
DialogInit ==
    /\ rows \in Forms
    /\ fs \in {<<File(SystemLut, "warm.cube", TRUE)>>, <<>>}
    /\ available_luts = scan_luts(<<File(SystemLut, "warm.cube", TRUE)>>)
    /\ StatusLabel = <<>>
    /\ call = NoCall
    /\ preview = NotPreviewed
    /\ rules = <<>>
    /\ timelines = <<1>>
    /\ results = NewResults
    /\ pc = "dialog"
    /\ timeline_idx = 0
    /\ track_idx = 0
    /\ item_idx = 0
    /\ video_track_count = 0
    /\ items = <<>>
    /\ listed = <<>>
    /\ visited = <<>>
    /\ calls = <<>>
    /\ discovered = NewDiscovered

\* on_apply, up to `applier = LUTApplier(self.resolve, self.timelines, rules)`
on_apply ==
    /\ pc = "dialog"
    /\ LET rls == get_rule_configs(rows, available_luts, fs)
       IN  IF rls = <<>>
           THEN /\ StatusLabel' = <<"ERROR: Add at least one rule">>
                /\ UNCHANGED <<rules, results, pc>>
           ELSE /\ rules' = rls
                /\ results' = NewResults
                /\ pc' = "constructed"
                /\ UNCHANGED StatusLabel
    /\ UNCHANGED <<timelines, timeline_idx, track_idx, item_idx, video_track_count,
                   items, listed, visited, calls, preview, rows, fs, available_luts, call,
                   discovered>>

\* on_apply, the status message built from the results (without its leading
\* check mark)
StatusMessage(res) ==
    LET error_details == SelectSeq(res.details, LAMBDA d : ~d.success)
    IN  <<"Processed ", NumStr(res.clips_processed), " clips, applied ",
          NumStr(res.luts_applied), " LUTs">>
        \o (IF res.clips_skipped > 0
            THEN <<", skipped ", NumStr(res.clips_skipped), " (generators/titles)">>
            ELSE <<>>)
        \o (IF res.errors > 0
            THEN <<", ", NumStr(res.errors), " error(s)">>
                 \o (IF error_details # <<>>
                     THEN <<"\nFirst error: ">> \o error_details[1].error
                          \o (IF Len(error_details) > 1
                              THEN <<"\n(See console for all ", NumStr(Len(error_details)),
                                     " error details)">>
                              ELSE <<>>)
                     ELSE <<>>)
            ELSE <<>>)

\* on_apply after apply_luts returned: the status message, then
\* update_preview with a new applier for the same rules
OnApplyReturned ==
    /\ pc = "returned"
    /\ StatusLabel' = StatusMessage(results)
    /\ preview' = [status |-> "returned",
                   matches |-> PreviewTimelines(PreviewState(<<>>, results, calls), 1).matches]
    /\ pc' = "done"
    /\ UNCHANGED <<rules, timelines, results, timeline_idx, track_idx, item_idx,
                   video_track_count, items, listed, visited, calls, rows, fs,
                   available_luts, call, discovered>>

\* on_apply, `except Exception as e: print(...)`: the exception that left
\* apply_luts ends the handler
OnApplyRaised ==
    /\ pc = "raised"
    /\ pc' = "done"
    /\ UNCHANGED <<rules, timelines, results, timeline_idx, track_idx, item_idx,
                   video_track_count, items, listed, visited, calls, preview, rows,
                   StatusLabel, fs, available_luts, call, discovered>>

DialogNext == on_apply \/ Next \/ OnApplyReturned \/ OnApplyRaised

DialogSpec == DialogInit /\ [][DialogNext]_vars

----------------------------------------------------------------------------
(* normalize_frame_rate *)

\* Values of the three types the function is given, and None.  A str is the
\* sequence of its characters.  A float or int is its sign and its magnitude
\* in ten-thousandths (240000 is 24, 239760 is 23.976; -0.0 has neg and
\* magnitude 0); `huge` marks an int above the largest float.
Str(chars) == [type |-> "str", chars |-> chars]
Float(neg, units) == [type |-> "float", neg |-> neg, units |-> units, huge |-> FALSE]
Integer(n) ==
    [type |-> "int", neg |-> n < 0, units |-> (IF n < 0 THEN -n ELSE n) * 10000, huge |-> FALSE]
HugeInt == [type |-> "int", neg |-> FALSE, units |-> 0, huge |-> TRUE]
NoneValue == [type |-> "NoneType"]

DigitChars == {"0", "1", "2", "3", "4", "5", "6", "7", "8", "9"}

DigitVal(c) == CHOOSE d \in 0 .. 9 : Digits[d + 1] = c

\* the number a run of digits spells ("" spells 0)
RECURSIVE DigitsValue(_)
DigitsValue(ds) ==
    IF ds = <<>> THEN 0
    ELSE 10 * DigitsValue(SubSeq(ds, 1, Len(ds) - 1)) + DigitVal(ds[Len(ds)])

\* 10 ** n
RECURSIVE Pow10(_)
Pow10(n) == IF n = 0 THEN 1 ELSE 10 * Pow10(n - 1)

\* the digits of n
RECURSIVE NumChars(_)
NumChars(n) == IF n < 10 THEN <<Digits[n + 1]>> ELSE NumChars(n \div 10) \o <<Digits[(n % 10) + 1]>>

\* str.rstrip(c)
RECURSIVE rstrip(_, _)
rstrip(chars, c) ==
    IF chars # <<>> /\ chars[Len(chars)] = c
    THEN rstrip(SubSeq(chars, 1, Len(chars) - 1), c)
    ELSE chars

\* str.lstrip(c)
RECURSIVE lstrip(_, _)
lstrip(chars, c) ==
    IF chars # <<>> /\ chars[1] = c THEN lstrip(Tail(chars), c) ELSE chars

\* str.strip(): blanks off both ends
strip(chars) == rstrip(lstrip(chars, " "), " ")

\* what float() gives: a float, or the exception it raises
FloatOk(neg, units) == [status |-> "ok", neg |-> neg, units |-> units]
FloatRaises(exception) == [status |-> exception, neg |-> FALSE, units |-> 0]

\* FractionUnits reading the digits as a whole number of ten-thousandths
FractionUnitsUnscaled(frac) == DigitsValue(frac)

\* the ten-thousandths the digits after the point spell (at most four digits)
FractionUnits(frac) == DigitsValue(frac) * Pow10(4 - Len(frac))

\* float(str): blanks off both ends, a sign, digits with at most one point and
\* at least one digit; anything else raises ValueError
ParseFloat(chars) ==
    LET t == strip(chars)
        signed == t # <<>> /\ t[1] \in {"-", "+"}
        neg == t # <<>> /\ t[1] = "-"
        body == IF signed THEN Tail(t) ELSE t
        points == {i \in 1 .. Len(body) : body[i] = "."}
        whole == IF points = {} THEN body
                 ELSE SubSeq(body, 1, (CHOOSE i \in points : TRUE) - 1)
        frac == IF points = {} THEN <<>>
                ELSE SubSeq(body, (CHOOSE i \in points : TRUE) + 1, Len(body))
    IN  IF \/ Cardinality(points) > 1
           \/ \E i \in 1 .. Len(whole) : whole[i] \notin DigitChars
           \/ \E i \in 1 .. Len(frac) : frac[i] \notin DigitChars
           \/ Len(whole) + Len(frac) = 0
        THEN FloatRaises("ValueError")
        ELSE FloatOk(neg, DigitsValue(whole) * 10000 + FractionUnits(frac))

\* float(frame_rate)
float(x) ==
    IF x.type = "str" THEN ParseFloat(x.chars)
    ELSE IF x.type = "NoneType" THEN FloatRaises("TypeError")
    ELSE IF x.huge THEN FloatRaises("OverflowError")
    ELSE FloatOk(x.neg, x.units)

\* f"{fps:.3f}": rounded to thousandths, three digits after the point, the
\* sign kept even when what is left is zero
Format3f(fps) ==
    LET thousandths == (fps.units + 5) \div 10
        frac == thousandths % 1000
    IN  (IF fps.neg THEN <<"-">> ELSE <<>>)
        \o NumChars(thousandths \div 1000)
        \o <<".", Digits[(frac \div 100) + 1], Digits[((frac \div 10) % 10) + 1],
             Digits[(frac % 10) + 1]>>

\* str(frame_rate)
str(x) == IF x.type = "str" THEN x.chars ELSE <<"N", "o", "n", "e">>

\* what a call gives: the string returned, or the exception that left it
Returns(chars) == [status |-> "ok", value |-> Str(chars)]
Raises(exception) == [status |-> exception, value |-> Str(<<>>)]

\* normalize_frame_rate
normalize_frame_rate(frame_rate) ==
    LET fps == float(frame_rate)
    IN  IF fps.status = "ok"
        THEN Returns(rstrip(rstrip(Format3f(fps), "0"), "."))
        ELSE IF fps.status \in {"ValueError", "TypeError"}
        THEN Returns(strip(str(frame_rate)))
        ELSE Raises(fps.status)

\* The strings the function is called with: blanks, a sign, digits, a point
\* and digits, and a unit; some spell a number, others do not.  The fourth
\* digit after a point is never 5, so no value lies halfway between two
\* thousandths, where the binary value of the float decides the rounding.
Pads == {<<>>, <<" ">>}
Signs == {<<>>, <<"-">>, <<"+">>}
Wholes == {<<>>, <<"0">>, <<"2", "4">>, <<"2", "3">>, <<"2", "9">>, <<"6", "0">>}
Fractions ==
    {<<>>, <<".">>, <<".", "0">>, <<".", "0", "0", "0">>, <<".", "9", "7", "6">>,
     <<".", "9", "7", "0">>, <<".", "9", "7">>, <<".", "9", "7", "6", "4">>,
     <<".", "9", "9", "9", "6">>, <<".", "0", "0", "0", "4">>}
Suffixes == {<<>>, <<" ">>, <<" ", "f", "p", "s">>}

StrInputs ==
    {Str(p \o g \o w \o f \o u) :
        p \in Pads, g \in Signs, w \in Wholes, f \in Fractions, u \in Suffixes}

NumberInputs ==
    {Float(neg, u) : neg \in BOOLEAN,
                     u \in {0, 4, 240000, 239760, 239764, 239996, 299700, 600000}}
    \cup {Integer(n) : n \in {0, 24, 60, -24}}
    \cup {HugeInt}

FrameRateInputs == StrInputs \cup NumberInputs \cup {NoneValue}

\* no call made yet
NormInit ==
    /\ call = NoCall
    /\ fs = <<>>
    /\ available_luts = <<>>
    /\ rules = <<>>
    /\ timelines = <<>>
    /\ results = NewResults
    /\ pc = "helper"
    /\ timeline_idx = 0
    /\ track_idx = 0
    /\ item_idx = 0
    /\ video_track_count = 0
    /\ items = <<>>
    /\ listed = <<>>
    /\ visited = <<>>
    /\ calls = <<>>
    /\ preview = NotPreviewed
    /\ rows = <<>>
    /\ StatusLabel = <<>>
    /\ discovered = NewDiscovered

\* normalize_frame_rate(frame_rate)
Normalize ==
    /\ \E frame_rate \in FrameRateInputs :
        call' = [op |-> "normalize_frame_rate", arg |-> frame_rate,
                 ret |-> normalize_frame_rate(frame_rate)]
    /\ UNCHANGED <<fs, available_luts, applier>>

\* normalize_frame_rate(normalize_frame_rate(frame_rate)): the outer call runs
\* on what the inner call returned; an exception of the inner call leaves the
\* whole expression
NormalizeTwice ==
    /\ call.op = "normalize_frame_rate"
    /\ call' = [op |-> "normalize_frame_rate twice", arg |-> call.arg, once |-> call.ret,
                ret |-> IF call.ret.status = "ok"
                        THEN normalize_frame_rate(call.ret.value)
                        ELSE call.ret]
    /\ UNCHANGED <<fs, available_luts, applier>>

NormNext == Normalize \/ NormalizeTwice

NormSpec == NormInit /\ [][NormNext]_vars

----------------------------------------------------------------------------
(* The rule classes on the values the host gives *)

\* A timeline item as the host answers for it: item.GetMediaPoolItem() ("ok":
\* a media pool item, "none", "raises"); media_pool_item.GetClipProperty()
\* ("ok": the properties, "none": nothing, "raises") and the entries "Video
\* Codec", "Resolution", "Frame Rate" and "FPS" (Absent: no such entry);
\* item.GetClipColor() (a value, or Raising).  A value is a Python value as
\* normalize_frame_rate takes it.
Absent == [type |-> "absent"]
Raising == [type |-> "raises"]

HostItem(media, props, codec, resolution, frame_rate, fps, color) ==
    [media |-> media, props |-> props, codec |-> codec, resolution |-> resolution,
     frame_rate |-> frame_rate, fps |-> fps, color |-> color]

H264 == <<"H", ".", "2", "6", "4">>
HD == <<"1", "9", "2", "0", "x", "1", "0", "8", "0">>
Blue == <<"B", "l", "u", "e">>

\* an item that answers every read, without a blank anywhere
Plain == HostItem("ok", "ok", Str(H264), Str(HD), Float(FALSE, 240000), Absent, Str(Blue))

CodecAnswers ==
    {Str(H264), Str(<<" ">> \o H264), Str(H264 \o <<" ">>), Str(<<>>), Str(<<" ">>), Absent}
ResolutionAnswers == {Str(HD), Str(HD \o <<" ">>), Str(<<>>), Str(<<" ">>), Absent}
FrameRateAnswers ==
    {Float(FALSE, 240000), Float(FALSE, 239760), Str(<<"2", "4", ".", "0", "0", "0">>),
     Str(<<" ", "2", "3", ".", "9", "7", "6">>), Str(<<"2", "4", " ", "f", "p", "s">>),
     Str(<<" ">>), Str(<<>>), Float(FALSE, 0), HugeInt, Absent}
FpsAnswers == {Absent, Float(FALSE, 250000), Str(<<"2", "5", ".", "0">>)}
ColorAnswers == {Str(Blue), Str(Blue \o <<" ">>), Str(<<>>), NoneValue, Raising}

\* the items: Plain, and Plain with one answer changed
HostItems ==
    {[Plain EXCEPT !.media = m] : m \in {"ok", "none", "raises"}}
    \cup {[Plain EXCEPT !.props = p] : p \in {"none", "raises"}}
    \cup {[Plain EXCEPT !.codec = c] : c \in CodecAnswers}
    \cup {[Plain EXCEPT !.resolution = r] : r \in ResolutionAnswers}
    \cup {[Plain EXCEPT !.frame_rate = f, !.fps = g] : f \in FrameRateAnswers, g \in FpsAnswers}
    \cup {[Plain EXCEPT !.color = c] : c \in ColorAnswers}

\* the values rules are authored with
HostRuleValues(category) ==
    CASE category = "Codec" -> {Str(H264), Str(<<" ">> \o H264), Str(<<>>)}
      [] category = "Resolution" -> {Str(HD), Str(HD \o <<" ">>), Str(<<>>)}
      [] category = "FrameRate" ->
            {Str(<<"2", "4">>), Str(<<"2", "3", ".", "9", "7", "6">>),
             Str(<<"2", "4", ".", "0", "0", "0">>), Str(<<"2", "5">>), Str(<<"0">>),
             Str(<<"2", "4", " ", "f", "p", "s">>), Str(<<>>)}
      [] category = "ClipColor" -> {Str(Blue), Str(Blue \o <<" ">>), Str(<<>>)}

RuleCategories == {"Codec", "Resolution", "FrameRate", "ClipColor"}

HostRules ==
    UNION {{Rule(c, v, WarmCube, 1) : v \in HostRuleValues(c)} : c \in RuleCategories}

\* `if x:`
Truthy(x) ==
    CASE x.type = "str" -> x.chars # <<>>
      [] x.type \in {"int", "float"} -> x.huge \/ x.units # 0
      [] OTHER -> FALSE

\* `a or b`
Or(a, b) == IF Truthy(a) THEN a ELSE b

\* props.get(key, ""), and GetClipProperty(key) for one entry
Entry(item, key) ==
    IF item.props # "ok" \/ item[key].type = "absent" THEN Str(<<>>) ELSE item[key]

\* what the body of a `try:` gives: a value, or an exception
Gives(value) == [status |-> "ok", value |-> value]
RaisesException == [status |-> "Exception", value |-> FALSE]

\* Caught letting the exception through
Uncaught(tried) == tried

\* `except Exception: return False`
Caught(tried) == IF tried.status = "ok" THEN tried ELSE Gives(FALSE)

\* CodecRule.matches
CodecRule_matches(value, item) ==
    Caught(
        IF item.media = "raises" THEN RaisesException
        ELSE IF item.media # "ok" THEN Gives(FALSE)
        ELSE IF item.props = "raises" THEN RaisesException
        ELSE LET codec == Entry(item, "codec")
             IN  IF ~Truthy(codec) THEN Gives(FALSE)
                 ELSE Gives(codec = value))

\* ResolutionRule.matches: GetClipProperty() giving nothing makes props.get raise
ResolutionRule_matches(value, item) ==
    Caught(
        IF item.media = "raises" THEN RaisesException
        ELSE IF item.media # "ok" THEN Gives(FALSE)
        ELSE IF item.props # "ok" THEN RaisesException
        ELSE LET resolution == Entry(item, "resolution")
             IN  IF ~Truthy(resolution) THEN Gives(FALSE)
                 ELSE Gives(Str(strip(str(resolution))) = value))

\* FrameRateRule.matches
FrameRateRule_matches(value, item) ==
    Caught(
        IF item.media = "raises" THEN RaisesException
        ELSE IF item.media # "ok" THEN Gives(FALSE)
        ELSE IF item.props # "ok" THEN RaisesException
        ELSE LET frame_rate == Or(Entry(item, "frame_rate"), Entry(item, "fps"))
                 normalized_fps == normalize_frame_rate(frame_rate)
             IN  IF ~Truthy(frame_rate) THEN Gives(FALSE)
                 ELSE IF normalized_fps.status # "ok" THEN RaisesException
                 ELSE Gives(normalized_fps.value = value))

\* ClipColorRule.matches
ClipColorRule_matches(value, item) ==
    Caught(
        IF item.media = "raises" THEN RaisesException
        ELSE IF item.media # "ok" THEN Gives(FALSE)
        ELSE IF item.color.type = "raises" THEN RaisesException
        ELSE LET clip_color == item.color
             IN  IF ~Truthy(clip_color) THEN Gives(FALSE)
                 ELSE Gives(clip_color = value))

\* rule.matches(item)
rule_matches(rule, item) ==
    CASE rule.category = "Codec" -> CodecRule_matches(rule.value, item)
      [] rule.category = "Resolution" -> ResolutionRule_matches(rule.value, item)
      [] rule.category = "FrameRate" -> FrameRateRule_matches(rule.value, item)
      [] rule.category = "ClipColor" -> ClipColorRule_matches(rule.value, item)

\* a rule and an item exist; matches has not been called
RuleInit ==
    /\ call = NoCall
    /\ discovered = NewDiscovered
    /\ fs = <<>>
    /\ available_luts = <<>>
    /\ rules = <<>>
    /\ timelines = <<>>
    /\ results = NewResults
    /\ pc = "rule"
    /\ timeline_idx = 0
    /\ track_idx = 0
    /\ item_idx = 0
    /\ video_track_count = 0
    /\ items = <<>>
    /\ listed = <<>>
    /\ visited = <<>>
    /\ calls = <<>>
    /\ preview = NotPreviewed
    /\ rows = <<>>
    /\ StatusLabel = <<>>

\* rule.matches(item)
Matches ==
    /\ \E rule \in HostRules : \E item \in HostItems :
        call' = [op |-> "matches", arg |-> [rule |-> rule, item |-> item],
                 ret |-> rule_matches(rule, item)]
    /\ UNCHANGED <<fs, available_luts, applier>>

RuleNext == Matches

RuleSpec == RuleInit /\ [][RuleNext]_vars

----------------------------------------------------------------------------
(* ProjectScanner *)

\* self.discovered[key].add(value)
Add(disc, key, value) == [disc EXCEPT ![key] = @ \cup {value}]

\* how far the body of _extract_properties_from_item's `try:` got: whether an
\* exception ended it, and self.discovered
Extracted(status, disc) == [status |-> status, discovered |-> disc]

\* the body of the `try:` of _extract_properties_from_item
ExtractBody(disc, item) ==
    IF item.media = "raises" THEN Extracted("Exception", disc)
    ELSE IF item.media # "ok" THEN Extracted("ok", disc)
    ELSE IF item.props = "raises" THEN Extracted("Exception", disc)
    ELSE IF item.props # "ok" THEN Extracted("ok", disc)
    ELSE LET codec == Entry(item, "codec")
             with_codec ==
                IF Truthy(codec) /\ strip(codec.chars) # <<>>
                THEN Add(disc, "codecs", Str(strip(codec.chars)))
                ELSE disc
             resolution == Entry(item, "resolution")
             with_resolution ==
                IF Truthy(resolution) /\ strip(str(resolution)) # <<>>
                THEN Add(with_codec, "resolutions", Str(strip(str(resolution))))
                ELSE with_codec
             frame_rate == Or(Entry(item, "frame_rate"), Entry(item, "fps"))
             normalized_fps == normalize_frame_rate(frame_rate)
             with_frame_rate ==
                IF Truthy(frame_rate)
                THEN Add(with_resolution, "frame_rates", normalized_fps.value)
                ELSE with_resolution
             clip_color == item.color
         IN  IF Truthy(frame_rate) /\ normalized_fps.status # "ok"
             THEN Extracted("Exception", with_resolution)
             ELSE IF clip_color.type = "raises"
             THEN Extracted("Exception", with_frame_rate)
             ELSE IF Truthy(clip_color) /\ strip(clip_color.chars) # <<>>
             THEN Extracted("ok", Add(with_frame_rate, "clip_colors", Str(strip(clip_color.chars))))
             ELSE Extracted("ok", with_frame_rate)

\* _extract_properties_from_item without its `except Exception: pass`
_extract_properties_from_itemNoExcept(disc, item) == ExtractBody(disc, item)

\* _extract_properties_from_item: `except Exception: pass` keeps what the
\* body had added before the exception
_extract_properties_from_item(disc, item) ==
    Extracted("ok", ExtractBody(disc, item).discovered)

\* what scan_timelines returned, and where the exception its `except` caught
\* came from ("none" if it caught none)
Scanned(ret, exception) ==
    [op |-> "scan_timelines", arg |-> <<>>, ret |-> ret, exception |-> exception]

\* ProjectScanner.__init__
ScanInit ==
    /\ timelines \in {[j \in 1 .. n |-> j] : n \in 0 .. MaxTimelines}
    /\ discovered = NewDiscovered
    /\ call = NoCall
    /\ pc = "scanner"
    /\ fs = <<>>
    /\ available_luts = <<>>
    /\ rules = <<>>
    /\ results = NewResults
    /\ timeline_idx = 0
    /\ track_idx = 0
    /\ item_idx = 0
    /\ video_track_count = 0
    /\ items = <<>>
    /\ listed = <<>>
    /\ visited = <<>>
    /\ calls = <<>>
    /\ preview = NotPreviewed
    /\ rows = <<>>
    /\ StatusLabel = <<>>

\* what a scan never touches
unscanned == <<rules, timelines, results, calls, preview, rows, StatusLabel, fs, available_luts>>

\* scan_timelines is called: `if not self.timelines: return False`
scan_timelines ==
    /\ pc = "scanner"
    /\ IF timelines = <<>>
       THEN /\ pc' = "scanned"
            /\ call' = Scanned(FALSE, "none")
            /\ UNCHANGED timeline_idx
       ELSE /\ pc' = "scan timelines"
            /\ timeline_idx' = 1
            /\ UNCHANGED call
    /\ UNCHANGED <<track_idx, item_idx, video_track_count, items, listed, visited, discovered>>
    /\ UNCHANGED unscanned

\* `for timeline in self.timelines`: GetName and GetTrackCount answer
ScanTimeline ==
    /\ pc = "scan timelines"
    /\ timeline_idx <= Len(timelines)
    /\ \E n \in 0 .. MaxTracks :
        /\ video_track_count' = n
        /\ track_idx' = 1
        /\ pc' = "scan tracks"
    /\ UNCHANGED <<timeline_idx, item_idx, items, listed, visited, discovered, call>>
    /\ UNCHANGED unscanned

\* a timeline's GetName, GetTrackCount or GetItemListInTrack raises:
\* `except Exception as e: ... return False`
ScanReadRaises ==
    /\ \/ pc = "scan timelines" /\ timeline_idx <= Len(timelines)
       \/ pc = "scan tracks" /\ track_idx <= video_track_count
    /\ pc' = "scanned"
    /\ call' = Scanned(FALSE, "timeline read")
    /\ UNCHANGED <<timeline_idx, track_idx, item_idx, video_track_count, items, listed,
                   visited, discovered>>
    /\ UNCHANGED unscanned

\* `for track_idx in range(...)`: GetItemListInTrack answers with n items
ScanTrack ==
    /\ pc = "scan tracks"
    /\ track_idx <= video_track_count
    /\ \E n \in 0 .. (MaxClips - Len(listed)) :
        LET got == [j \in 1 .. n |-> <<timeline_idx, track_idx, j>>]
        IN  /\ items' = got
            /\ listed' = listed \o got
    /\ item_idx' = 1
    /\ pc' = "scan items"
    /\ UNCHANGED <<timeline_idx, track_idx, video_track_count, visited, discovered, call>>
    /\ UNCHANGED unscanned

\* `for item in items: self._extract_properties_from_item(item)`; an exception
\* that left _extract_properties_from_item would end scan_timelines in its
\* `except`
ScanItem ==
    /\ pc = "scan items"
    /\ item_idx <= Len(items)
    /\ \E item \in HostItems :
        LET got == _extract_properties_from_item(discovered, item)
        IN  /\ visited' = Append(visited, [item |-> items[item_idx], clip |-> item])
            /\ discovered' = got.discovered
            /\ IF got.status = "ok"
               THEN /\ item_idx' = item_idx + 1
                    /\ UNCHANGED <<pc, call>>
               ELSE /\ pc' = "scanned"
                    /\ call' = Scanned(FALSE, "item read")
                    /\ UNCHANGED item_idx
    /\ UNCHANGED <<timeline_idx, track_idx, video_track_count, items, listed>>
    /\ UNCHANGED unscanned

\* the item loop is exhausted: next track
ScanEndTrack ==
    /\ pc = "scan items"
    /\ item_idx > Len(items)
    /\ track_idx' = track_idx + 1
    /\ pc' = "scan tracks"
    /\ UNCHANGED <<timeline_idx, item_idx, video_track_count, items, listed, visited,
                   discovered, call>>
    /\ UNCHANGED unscanned

\* the track loop is exhausted: next timeline
ScanEndTimeline ==
    /\ pc = "scan tracks"
    /\ track_idx > video_track_count
    /\ timeline_idx' = timeline_idx + 1
    /\ pc' = "scan timelines"
    /\ UNCHANGED <<track_idx, item_idx, video_track_count, items, listed, visited,
                   discovered, call>>
    /\ UNCHANGED unscanned

\* `return True` after the last timeline
ScanReturn ==
    /\ pc = "scan timelines"
    /\ timeline_idx > Len(timelines)
    /\ pc' = "scanned"
    /\ call' = Scanned(TRUE, "none")
    /\ UNCHANGED <<timeline_idx, track_idx, item_idx, video_track_count, items, listed,
                   visited, discovered>>
    /\ UNCHANGED unscanned

ScanNext ==
    \/ scan_timelines
    \/ ScanTimeline
    \/ ScanReadRaises
    \/ ScanTrack
    \/ ScanItem
    \/ ScanEndTrack
    \/ ScanEndTimeline
    \/ ScanReturn

ScanSpec == ScanInit /\ [][ScanNext]_vars

----------------------------------------------------------------------------
(* C1 *)

\* C1: the rule applied to an item is the first rule, in list order, that
\* matches it: SetLUT is issued at most once per item, and only with that
\* rule's target node and LUT path; the item's outcome record names that rule.
C1_FirstMatchWins ==
    /\ \A k \in 1 .. Len(calls) : IsVisited(calls[k].item)
    /\ \A j \in 1 .. Len(visited) :
        LET x == visited[j].item
            c == visited[j].clip
        IN  /\ Cardinality(CallsOf(x)) <= 1
            /\ Cardinality(DetailsOf(x)) <= 1
            /\ \A k \in CallsOf(x) :
                \E f \in 1 .. Len(rules) :
                    /\ IsFirstMatching(f, c)
                    /\ calls[k].node = rules[f].target_node
                    /\ calls[k].path = rules[f].lut_path
            /\ \A d \in DetailsOf(x) :
                \E f \in 1 .. Len(rules) :
                    /\ IsFirstMatching(f, c)
                    /\ Details[d].target_node = rules[f].target_node
                    /\ Details[d].lut = LutLabel(rules[f].lut_path)

\* two different rules both match an item for which SetLUT was issued
C1_Witness ==
    \E j \in 1 .. Len(visited) :
        /\ Len(rules) = 2
        /\ matches(rules[1], visited[j].clip)
        /\ matches(rules[2], visited[j].clip)
        /\ rules[1].target_node # rules[2].target_node
        /\ rules[1].lut_path # rules[2].lut_path
        /\ CallsOf(visited[j].item) # {}

----------------------------------------------------------------------------
(* C2 *)

\* C2: no exception of a host call made while processing an item (its name,
\* media reference, node graph, node count, SetLUT) propagates out of
\* apply_luts.
C2_NoExceptionPropagates == ~ItemRaised

----------------------------------------------------------------------------
(* C3 *)

\* C3: once the run has ended, every item the host listed after an item that
\* ended in an error outcome was visited and processed, and the run was not
\* ended by an item's exception.
C3_BatchContinues ==
    pc \in {"returned", "raised"} =>
        \A a \in 1 .. Len(listed) :
            (IsVisited(listed[a]) /\ ClipOf(listed[a]).name = "ok" /\ EndsInError(listed[a])) =>
                /\ ~ItemRaised
                /\ \A b \in (a + 1) .. Len(listed) :
                    IsVisited(listed[b]) /\ ClipOf(listed[b]).name = "ok"

\* Beside C3: an error outcome by itself never ends the run, and a run that
\* returns has visited and processed every item the host listed.
ErrorsDoNotStop ==
    /\ (pc = "returned" \/ (pc = "items" /\ item_idx > Len(items))) =>
          \A a \in 1 .. Len(listed) :
              IsVisited(listed[a]) /\ ClipOf(listed[a]).name = "ok"
    /\ pc = "raised" => (ItemRaised \/ \A a \in 1 .. Len(listed) : IsVisited(listed[a]))

----------------------------------------------------------------------------
(* C4 *)

\* C4: every visited item without a resolvable media reference is counted in
\* clips_skipped, has no outcome record and no SetLUT call.
C4_NoMediaSkipped ==
    /\ results.clips_skipped =
          Cardinality({j \in 1 .. Len(visited) : visited[j].clip.media # "ok"})
    /\ \A j \in 1 .. Len(visited) :
        visited[j].clip.media # "ok" =>
            DetailsOf(visited[j].item) = {} /\ CallsOf(visited[j].item) = {}

\* Beside C4: an item without a media reference whose GetName answered is
\* always skipped: counted in clips_skipped, no outcome record, no SetLUT call.
SkippedWhenNamed ==
    /\ results.clips_skipped = Cardinality(WithoutMediaNamed)
    /\ \A j \in WithoutMediaNamed :
        DetailsOf(visited[j].item) = {} /\ CallsOf(visited[j].item) = {}

----------------------------------------------------------------------------
(* C5 *)

\* visited media-backed items that no rule matches
Unmatched ==
    {j \in 1 .. Len(visited) :
        /\ visited[j].clip.name = "ok"
        /\ visited[j].clip.media = "ok"
        /\ \A f \in 1 .. Len(rules) : ~matches(rules[f], visited[j].clip)}

\* C5 as stated: when apply_luts returns, clips_processed = clips_skipped +
\* luts_applied + errors (every visited item is counted in exactly one of the
\* three, an unmatched media-backed item in clips_skipped).
C5_CountersSumUp ==
    pc = "returned" =>
        results.clips_processed =
            results.clips_skipped + results.luts_applied + results.errors

\* C5 as amended: when apply_luts returns, every visited item was counted once
\* in clips_processed; clips_skipped counts exactly the items without a media
\* reference; a media-backed item that no rule matches is counted in none of
\* clips_skipped, luts_applied, errors; so clips_processed is their sum plus the
\* number of unmatched media-backed items.
C5_CountersWithUnmatched ==
    pc = "returned" =>
        /\ results.clips_processed = Len(visited)
        /\ results.clips_skipped = Cardinality(WithoutMediaNamed)
        /\ results.clips_processed =
              results.clips_skipped + results.luts_applied + results.errors
                  + Cardinality(Unmatched)

\* a returned run that met an item without media and an unmatched media-backed item
C5_Witness ==
    /\ pc = "returned"
    /\ rules # <<>>
    /\ WithoutMediaNamed # {}
    /\ Unmatched # {}

----------------------------------------------------------------------------
(* C6 *)

\* C6 as stated: when apply_luts returns, the outcome list has exactly
\* clips_processed records, one per visited item.
C6_OneRecordPerItem ==
    pc = "returned" => Len(Details) = results.clips_processed

\* C6 as amended: apply_luts appends exactly one record for each item a rule
\* was applied to (applied or error) and none for a skipped item (no media
\* reference, or no matching rule), so the outcome list always has exactly
\* luts_applied + errors records.
C6_OneRecordPerMatch ==
    /\ Len(Details) = results.luts_applied + results.errors
    /\ \A j \in 1 .. Len(visited) :
        Cardinality(DetailsOf(visited[j].item)) =
            IF \E f \in 1 .. Len(rules) : Applying(visited[j], f) THEN 1 ELSE 0

\* a returned run with a recorded error, and a skipped item that left no record
C6_Witness ==
    /\ pc = "returned"
    /\ results.errors = 1
    /\ Len(Details) = 1
    /\ results.clips_processed = 2

----------------------------------------------------------------------------
(* C7 *)

\* the node count was read and rule f's target node is outside 1..count
OutOfRange(v, f) ==
    /\ v.clip.graph = "ok"
    /\ v.clip.count = "ok"
    /\ rules[f].target_node < 1 \/ rules[f].target_node > v.clip.numNodes

\* the node graph or the node count could not be read
GraphUnavailable(v) ==
    \/ v.clip.graph \in {"none", "raises"}
    \/ v.clip.graph = "ok" /\ v.clip.count \in {"none", "raises"}

\* C7: every SetLUT call targets a node in 1..node count of the item's graph;
\* an item whose applied rule's target node is out of that range, or whose
\* graph or node count is unavailable, ends in an error outcome with no call.
C7_StageInRange ==
    /\ \A k \in 1 .. Len(calls) :
        LET c == ClipOf(calls[k].item)
        IN  /\ c.graph = "ok"
            /\ c.count = "ok"
            /\ 1 <= calls[k].node
            /\ calls[k].node <= c.numNodes
    /\ \A j \in 1 .. Len(visited) : \A f \in 1 .. Len(rules) :
        (Applying(visited[j], f) /\ (OutOfRange(visited[j], f) \/ GraphUnavailable(visited[j]))) =>
            /\ CallsOf(visited[j].item) = {}
            /\ EndsInError(visited[j].item)

\* a target node above the node count, one below 1 and an accepted call
C7_Witness ==
    /\ \E j \in 1 .. Len(visited) : \E f \in 1 .. Len(rules) :
        /\ Applying(visited[j], f)
        /\ visited[j].clip.graph = "ok" /\ visited[j].clip.count = "ok"
        /\ rules[f].target_node > visited[j].clip.numNodes
        /\ EndsInError(visited[j].item)
    /\ \E k \in 1 .. Len(calls) : calls[k].result = "true"

----------------------------------------------------------------------------
(* C8 *)

\* the error message of the item's outcome record
ErrorOf(x) == Details[CHOOSE d \in DetailsOf(x) : TRUE].error

\* C8 as stated: applying a matching rule with target node 0 always yields a
\* stage-out-of-range error for the item.
C8_ZeroAlwaysOutOfRange ==
    \A j \in 1 .. Len(visited) : \A f \in 1 .. Len(rules) :
        (Applying(visited[j], f) /\ rules[f].target_node = 0) =>
            /\ EndsInError(visited[j].item)
            /\ ErrorOf(visited[j].item)[1] \in {"Invalid target node ", "Target node "}

\* C8 as amended: applying a matching rule with target node 0 to an item whose
\* node graph and node count are available yields the invalid-target-node
\* error; applying one with a target node above the node count yields an
\* out-of-range error whose message embeds that node count.
C8_StageErrors ==
    \A j \in 1 .. Len(visited) : \A f \in 1 .. Len(rules) :
        LET v == visited[j]
        IN  (Applying(v, f) /\ v.clip.graph = "ok" /\ v.clip.count = "ok") =>
                /\ rules[f].target_node = 0 =>
                      /\ EndsInError(v.item)
                      /\ ErrorOf(v.item) = <<"Invalid target node ", "0", " (must be >= 1)">>
                /\ rules[f].target_node > v.clip.numNodes =>
                      /\ EndsInError(v.item)
                      /\ Len(ErrorOf(v.item)) = 5
                      /\ ErrorOf(v.item)[1] = "Target node "
                      /\ ErrorOf(v.item)[2] = NumStr(rules[f].target_node)
                      /\ ErrorOf(v.item)[3] = " out of range (clip has "
                      /\ ErrorOf(v.item)[4] = NumStr(v.clip.numNodes)

\* one item failed on target node 0, another on a target above its node count
C8_Witness ==
    /\ \E j \in 1 .. Len(visited) : \E f \in 1 .. Len(rules) :
        /\ Applying(visited[j], f)
        /\ visited[j].clip.graph = "ok" /\ visited[j].clip.count = "ok"
        /\ rules[f].target_node = 0
    /\ \E j \in 1 .. Len(visited) : \E f \in 1 .. Len(rules) :
        /\ Applying(visited[j], f)
        /\ visited[j].clip.graph = "ok" /\ visited[j].clip.count = "ok"
        /\ rules[f].target_node > visited[j].clip.numNodes

----------------------------------------------------------------------------
(* C9 *)

\* stage validation passed for rule f on the item
StagePassed(v, f) ==
    /\ Applying(v, f)
    /\ v.clip.graph = "ok"
    /\ v.clip.count = "ok"
    /\ 1 <= rules[f].target_node
    /\ rules[f].target_node <= v.clip.numNodes

\* C9: SetLUT is issued with a LUT path only if that file exists and is
\* readable; once stage validation has passed, a missing or unreadable file
\* ends the item in a resource error with no call, and a removal rule issues
\* SetLUT(target node, "") whatever the file system says.
C9_ResourceChecked ==
    /\ \A k \in 1 .. Len(calls) :
        calls[k].path # <<>> => ClipOf(calls[k].item).file = "ok"
    /\ \A j \in 1 .. Len(visited) : \A f \in 1 .. Len(rules) :
        LET v == visited[j]
        IN  StagePassed(v, f) =>
                IF rules[f].lut_path # <<>> /\ v.clip.file # "ok"
                THEN /\ CallsOf(v.item) = {}
                     /\ EndsInError(v.item)
                     /\ ErrorOf(v.item)[1] =
                            IF v.clip.file = "missing" THEN "LUT file not found: "
                            ELSE "LUT file not readable: "
                ELSE /\ Cardinality(CallsOf(v.item)) = 1
                     /\ \A k \in CallsOf(v.item) :
                            /\ calls[k].node = rules[f].target_node
                            /\ calls[k].path = rules[f].lut_path

\* a removal call, and an item stopped by an unreadable LUT file
C9_Witness ==
    /\ \E k \in 1 .. Len(calls) : calls[k].path = <<>>
    /\ \E j \in 1 .. Len(visited) : \E f \in 1 .. Len(rules) :
        /\ StagePassed(visited[j], f)
        /\ rules[f].lut_path # <<>>
        /\ visited[j].clip.file = "unreadable"
        /\ EndsInError(visited[j].item)

----------------------------------------------------------------------------
(* C10 *)

\* C10: luts_applied counts exactly the SetLUT calls that returned a truthy
\* value, an item has a success record exactly when its call did, and a call
\* that returned a falsy value leaves the item with an error record carrying
\* a reason, for application and removal alike.
C10_AppliedIffAccepted ==
    /\ results.luts_applied =
          Cardinality({k \in 1 .. Len(calls) : calls[k].result = "true"})
    /\ results.errors = Cardinality({d \in 1 .. Len(Details) : ~Details[d].success})
    /\ \A j \in 1 .. Len(visited) :
        LET x == visited[j].item
        IN  (\E d \in DetailsOf(x) : Details[d].success)
                <=> (\E k \in CallsOf(x) : calls[k].result = "true")
    /\ \A k \in 1 .. Len(calls) :
        calls[k].result = "false" =>
            /\ EndsInError(calls[k].item)
            /\ ErrorOf(calls[k].item) # <<>>
            /\ ErrorOf(calls[k].item)[1] \in
                  {"SetLUT() returned False (failed to remove LUT from node ",
                   "SetLUT() returned False (Resolve rejected the LUT file). Check LUT format and validity."}

\* the host rejected a removal and accepted an application
C10_Witness ==
    /\ \E k \in 1 .. Len(calls) : calls[k].result = "false" /\ calls[k].path = <<>>
    /\ \E k \in 1 .. Len(calls) : calls[k].result = "true" /\ calls[k].path # <<>>
    /\ results.luts_applied = 1
    /\ results.errors = 1

----------------------------------------------------------------------------
(* C11 *)

\* C11: a call of preview_matches issues no SetLUT call to the host and
\* leaves the applier's counters and outcome list as they were, whatever the
\* timelines, items and rules.
C11_PreviewHasNoEffect ==
    [][preview' # preview => (calls' = calls /\ results' = results)]_vars

\* a preview that listed a match, on an applier whose run had issued SetLUT
C11_Witness ==
    /\ preview.status = "returned"
    /\ preview.matches # <<>>
    /\ calls # <<>>
    /\ results.luts_applied > 0

----------------------------------------------------------------------------
(* C12 *)

\* record m of a preview and outcome record d of a run name the same item of
\* the same timeline, and the same rule: the first rule that matches the item
SamePair(m, d) ==
    /\ m.clip = d.clip
    /\ m.timeline = d.timeline
    /\ \E f \in 1 .. Len(rules) :
        /\ IsFirstMatching(f, ClipOf(m.clip))
        /\ m.lut = PreviewLabel(rules[f].lut_path)
        /\ m.property = get_property_value(rules[f], ClipOf(m.clip))
        /\ d.lut = LutLabel(rules[f].lut_path)
        /\ d.target_node = rules[f].target_node

\* C12: with the host answering preview_matches as it answered apply_luts, a
\* preview returns exactly when the run returned, and its list is, record for
\* record and in the same order, the list of the items the run applied a rule
\* to (applied or error), each with the same matched rule.
C12_PreviewApplyParity ==
    /\ preview.status = "returned" => pc = "returned"
    /\ preview.status = "returned" =>
        /\ Len(preview.matches) = Len(Details)
        /\ \A k \in 1 .. Len(Details) : SamePair(preview.matches[k], Details[k])

\* a preview of two items, one that the run applied a LUT to and one that
\* ended in an error, matched by different rules
C12_Witness ==
    /\ preview.status = "returned"
    /\ Len(preview.matches) = 2
    /\ preview.matches[1].lut # preview.matches[2].lut
    /\ results.luts_applied = 1
    /\ results.errors = 1

----------------------------------------------------------------------------
(* C13 *)

\* rule f is a removal rule applied to the item with its target node in
\* range, and the host accepted the call
RemovalAccepted(v, f) ==
    /\ StagePassed(v, f)
    /\ rules[f].lut_path = <<>>
    /\ v.clip.setLUT = "true"

\* SetLUT(target node of rule f, "") was issued exactly once for the item
RemovedOnce(v, f) ==
    /\ Cardinality(CallsOf(v.item)) = 1
    /\ \A k \in CallsOf(v.item) :
        calls[k].node = rules[f].target_node /\ calls[k].path = <<>>

\* the item's one outcome record is a success labelled `label`
AppliedAs(x, label) ==
    /\ Cardinality(DetailsOf(x)) = 1
    /\ \A d \in DetailsOf(x) : Details[d].success /\ Details[d].lut = label

\* C13 as stated: an accepted removal leaves the item applied with the
\* LUTManager's removal option as its LUT label, and SetLUT(target node, "")
\* was issued exactly once for it.
C13_RemovalUsesManagerLabel ==
    \A j \in 1 .. Len(visited) : \A f \in 1 .. Len(rules) :
        RemovalAccepted(visited[j], f) =>
            /\ AppliedAs(visited[j].item, RemovalOption)
            /\ RemovedOnce(visited[j], f)

\* C13 as amended: an accepted removal leaves the item applied with the LUT
\* label "(Removed)", which is apply_luts' own removal label (the
\* LUTManager's option reads "(None - Remove LUT)", a preview "(Remove LUT)"),
\* and SetLUT(target node, "") was issued exactly once for it.
C13_RemovalScenario ==
    /\ \A j \in 1 .. Len(visited) : \A f \in 1 .. Len(rules) :
        RemovalAccepted(visited[j], f) =>
            /\ AppliedAs(visited[j].item, "(Removed)")
            /\ RemovedOnce(visited[j], f)
    /\ \A k \in 1 .. Len(preview.matches) :
        (\E j \in 1 .. Len(visited) : \E f \in 1 .. Len(rules) :
            visited[j].item = preview.matches[k].clip /\ RemovalAccepted(visited[j], f))
        => preview.matches[k].lut = "(Remove LUT)"

\* a colour rule removed the LUT of a blue item, and the preview lists it
C13_Witness ==
    \E j \in 1 .. Len(visited) : \E f \in 1 .. Len(rules) :
        /\ RemovalAccepted(visited[j], f)
        /\ rules[f].category = "ClipColor"
        /\ visited[j].clip.color = "Blue"
        /\ \E k \in 1 .. Len(preview.matches) : preview.matches[k].clip = visited[j].item

----------------------------------------------------------------------------
(* C14 *)

\* item x comes before item y: an earlier timeline, or an earlier track of the
\* same timeline, or an earlier place in the same track
Before(x, y) ==
    \/ x[1] < y[1]
    \/ x[1] = y[1] /\ x[2] < y[2]
    \/ x[1] = y[1] /\ x[2] = y[2] /\ x[3] < y[3]

\* the records of list l name items in timeline, track, placement order
InOrder(l) == \A a, b \in 1 .. Len(l) : a < b => Before(l[a].clip, l[b].clip)

\* C14: apply_luts asks for the items timeline by timeline and track by
\* track, visits the items the host listed one at a time in that order, each
\* once, and has visited all of them when it returns; the outcome records and
\* the records of a preview are in that same order.
C14_OrderPreserved ==
    /\ \A a, b \in 1 .. Len(listed) : a < b => Before(listed[a], listed[b])
    /\ Len(visited) <= Len(listed)
    /\ \A j \in 1 .. Len(visited) : visited[j].item = listed[j]
    /\ pc = "returned" => Len(visited) = Len(listed)
    /\ InOrder(Details)
    /\ InOrder(preview.matches)

\* outcome records and preview records for two items of different timelines
C14_Witness ==
    /\ pc = "returned"
    /\ Len(Details) = 2
    /\ Details[1].success
    /\ Details[2].success
    /\ Details[1].clip[1] # Details[2].clip[1]
    /\ Len(preview.matches) = 2

----------------------------------------------------------------------------
(* C15 *)

\* C15: with an empty rule list apply_luts returns before its first loop: the
\* host is asked for no timeline, track or item, no item is visited, SetLUT
\* is never issued, every counter stays 0 and the outcome list stays empty.
C15_NoRulesNoIteration ==
    rules = <<>> =>
        /\ pc \in {"constructed", "returned"}
        /\ listed = <<>>
        /\ visited = <<>>
        /\ calls = <<>>
        /\ results = NewResults
        /\ track_idx = 0
        /\ item_idx = 0

\* apply_luts returned with no rule although timelines were selected
C15_Witness ==
    /\ rules = <<>>
    /\ timelines # <<>>
    /\ pc = "returned"

----------------------------------------------------------------------------
(* C17 *)

\* the discovered LUTs whose basename is `name`, by position in available_luts
Named(name) == {i \in 1 .. Len(available_luts) : basename(available_luts[i]) = name}

Resolving == call.op = "get_lut_path_by_display_name"

\* C17: get_lut_path_by_display_name resolves the removal option to "", a
\* name that is the basename of no discovered LUT to None, and the basename of
\* every discovered LUT r, in whatever folder r lies, to r itself.
C17_ResolveRoundTrip ==
    Resolving =>
        /\ call.arg = RemovalOption => call.ret = Path(<<>>)
        /\ (call.arg # RemovalOption /\ Named(call.arg) = {}) => call.ret = None
        /\ \A i \in Named(call.arg) : call.ret = Path(available_luts[i])

\* Beside C17: the removal option and an unknown name resolve as claimed, and
\* a basename resolves to the first discovered LUT of that name, which is r
\* itself when no other discovered LUT shares r's basename.
ResolvesToFirstOfName ==
    Resolving =>
        /\ call.arg = RemovalOption => call.ret = Path(<<>>)
        /\ (call.arg # RemovalOption /\ Named(call.arg) = {}) => call.ret = None
        /\ \A i \in Named(call.arg) :
            /\ call.ret.found
            /\ \E h \in Named(call.arg) :
                call.ret.path = available_luts[h] /\ \A m \in Named(call.arg) : h <= m
            /\ Named(call.arg) = {i} => call.ret = Path(available_luts[i])

----------------------------------------------------------------------------
(* C18 *)

Validating == call.op = "validate_lut_path"

\* the name of the path ends, whatever the case of its letters, in one of the
\* four LUT extensions
HasLutExtension(path) ==
    Ending(lower(basename(path))) \in {".cube", ".3dl", ".ilut", ".dat"}

\* C18 as stated: validate_lut_path accepts "", and any other path exactly
\* when it exists, is readable and has one of the four LUT extensions.
C18_ValidIffReadable ==
    Validating =>
        (call.ret <=> (call.arg = <<>>
                       \/ (exists(fs, call.arg) /\ access(fs, call.arg)
                           /\ HasLutExtension(call.arg))))

\* C18 as amended: validate_lut_path accepts "", and any other path exactly
\* when it exists and has one of the four LUT extensions, whatever the case
\* of its letters; whether the file can be read is not looked at.
C18_ValidIffExists ==
    Validating =>
        (call.ret <=> (call.arg = <<>>
                       \/ (exists(fs, call.arg) /\ HasLutExtension(call.arg))))

\* an existing file that cannot be read, with its extension in capitals, was
\* found valid
C18_Witness ==
    /\ Validating
    /\ call.arg # <<>>
    /\ basename(call.arg) = "WARM.CUBE"
    /\ exists(fs, call.arg)
    /\ ~access(fs, call.arg)
    /\ call.ret

----------------------------------------------------------------------------
(* C16 *)

\* the row is enabled and its LUT name resolves to no discovered LUT
Unresolved(row) ==
    /\ row.Checked
    /\ row.LUTValue # RemovalOption
    /\ \A i \in 1 .. Len(available_luts) : basename(available_luts[i]) # row.LUTValue

\* the row is enabled and its LUT name is the removal option or the name of a
\* discovered LUT file that still exists
Usable(row) ==
    /\ row.Checked
    /\ \/ row.LUTValue = RemovalOption
       \/ \E i \in 1 .. Len(available_luts) :
            /\ basename(available_luts[i]) = row.LUTValue
            /\ exists(fs, available_luts[i])

\* the batch run has started: an applier was built and apply_luts called
RunStarted == pc # "dialog"

\* C16 as stated: when an enabled row names a LUT that does not resolve, the
\* batch run never starts: no applier is built, no item is visited, no
\* SetLUT is issued.
C16_UnresolvedNameStopsRun ==
    (\E i \in 1 .. Len(rows) : Unresolved(rows[i])) =>
        /\ ~RunStarted
        /\ rules = <<>>
        /\ visited = <<>>
        /\ calls = <<>>

\* C16 as amended: an enabled row whose LUT name does not resolve is dropped
\* without an error and the batch runs with the rules of the other enabled
\* rows, in row order; only when no enabled row is left with a usable LUT
\* name is the error reported, once, before any item is visited, and the run
\* does not start.  No rule of the run comes from a dropped row.
C16_UnresolvedRowDropped ==
    LET kept == SelectSeq(rows, Usable)
    IN  /\ RunStarted =>
            /\ kept # <<>>
            /\ Len(rules) = Len(kept)
            /\ \A i \in 1 .. Len(kept) :
                /\ rules[i].category = RuleClass(kept[i].RuleType)
                /\ rules[i].value = RuleValueOf(kept[i])
                /\ rules[i].target_node = kept[i].NodeValue
                /\ (rules[i].lut_path = <<>>) <=> (kept[i].LUTValue = RemovalOption)
                /\ rules[i].lut_path # <<>> => basename(rules[i].lut_path) = kept[i].LUTValue
        /\ StatusLabel = <<"ERROR: Add at least one rule">> => kept = <<>>
        /\ kept = <<>> =>
            /\ ~RunStarted
            /\ listed = <<>>
            /\ visited = <<>>
            /\ calls = <<>>
            /\ results = NewResults

\* the first row names a LUT that does not resolve, and the run applied the
\* second row's rule to an item
C16_Witness ==
    /\ Unresolved(rows[1])
    /\ Usable(rows[2])
    /\ calls # <<>>
    /\ results.luts_applied > 0
    /\ pc = "done"

----------------------------------------------------------------------------
(* C19 *)

\* C19: normalize_frame_rate(normalize_frame_rate(x)) gives what
\* normalize_frame_rate(x) gives, for every x: a number, a string that spells
\* a number, a string that does not.
C19_Idempotent ==
    call.op = "normalize_frame_rate twice" => call.ret = call.once

\* a string with a blank and trailing zeros was normalized to "29.97", and
\* normalized again
C19_Witness ==
    /\ call.op = "normalize_frame_rate twice"
    /\ call.arg = Str(<<" ", "2", "9", ".", "9", "7", "0">>)
    /\ call.once = Returns(<<"2", "9", ".", "9", "7">>)
    /\ call.ret.status = "ok"

----------------------------------------------------------------------------
(* C20 *)

\* x is a number, or a string that spells one
Numeric(x) == x.type \in {"int", "float"} \/ (x.type = "str" /\ float(x).status = "ok")

\* the number x denotes, to three decimals, in thousandths
Thousandths(x) ==
    LET fps == float(x)
        magnitude == (fps.units + 5) \div 10
    IN  IF fps.neg THEN -magnitude ELSE magnitude

\* x and y denote the same number to three decimals
SameNumber(x, y) ==
    /\ Numeric(x) /\ float(x).status = "ok"
    /\ Numeric(y) /\ float(y).status = "ok"
    /\ Thousandths(x) = Thousandths(y)

\* the string has no trailing zero after a decimal point and no trailing point
Canonical(chars) ==
    /\ chars # <<>>
    /\ chars[Len(chars)] # "."
    /\ (\E i \in 1 .. Len(chars) : chars[i] = ".") => chars[Len(chars)] # "0"

\* the examples: 24.0 and "24.000" give "24", 23.976 gives "23.976", "29.970"
\* gives "29.97", 60 gives "60"
Examples ==
    /\ call.arg = Float(FALSE, 240000) => call.ret = Returns(<<"2", "4">>)
    /\ call.arg = Str(<<"2", "4", ".", "0", "0", "0">>) => call.ret = Returns(<<"2", "4">>)
    /\ call.arg = Float(FALSE, 239760) => call.ret = Returns(<<"2", "3", ".", "9", "7", "6">>)
    /\ call.arg = Str(<<"2", "9", ".", "9", "7", "0">>) =>
          call.ret = Returns(<<"2", "9", ".", "9", "7">>)
    /\ call.arg = Integer(60) => call.ret = Returns(<<"6", "0">>)

Normalizing == call.op = "normalize_frame_rate"

\* C20: normalize_frame_rate returns for every input, and gives every two
\* inputs that denote the same number to three decimals the same string, one
\* without trailing zeros after the point and without a trailing point.
C20_TotalAndCanonical ==
    Normalizing =>
        /\ call.ret.status = "ok"
        /\ Numeric(call.arg) =>
            /\ Canonical(call.ret.value.chars)
            /\ \A y \in FrameRateInputs :
                SameNumber(call.arg, y) => normalize_frame_rate(y) = call.ret
        /\ Examples

\* Beside C20: the function returns for every input but an int above the
\* largest float, no result has a trailing zero after the point or a
\* trailing point, and two inputs that denote the same number get the same
\* string unless one of them is negative and rounds to zero (it gives "-0").
CanonicalButNegativeZero ==
    Normalizing =>
        /\ call.ret.status = "ok" <=> call.arg # HugeInt
        /\ (Numeric(call.arg) /\ call.arg # HugeInt) =>
            /\ Canonical(call.ret.value.chars)
            /\ \A y \in FrameRateInputs :
                (SameNumber(call.arg, y) /\ float(y).neg = float(call.arg).neg)
                    => normalize_frame_rate(y) = call.ret
            /\ Thousandths(call.arg) = 0 =>
                call.ret = Returns(IF float(call.arg).neg THEN <<"-", "0">> ELSE <<"0">>)
        /\ Examples

----------------------------------------------------------------------------
(* C30 *)

\* the records of the list with the given `success`
RecordsWith(res, success) ==
    {d \in 1 .. Len(res.details) : res.details[d].success = success}

\* the counters agree with the outcome list
CountersAgree(res) ==
    /\ Cardinality(RecordsWith(res, TRUE)) = res.luts_applied
    /\ Cardinality(RecordsWith(res, FALSE)) = res.errors
    /\ res.clips_processed >= res.clips_skipped + res.luts_applied + res.errors

\* from `old` to `new` no counter went down and the list only grew at its end
OnlyGrows(old, new) ==
    /\ new.clips_processed >= old.clips_processed
    /\ new.clips_skipped >= old.clips_skipped
    /\ new.luts_applied >= old.luts_applied
    /\ new.errors >= old.errors
    /\ Len(new.details) >= Len(old.details)
    /\ SubSeq(new.details, 1, Len(old.details)) = old.details

\* C30: at every point of an apply_luts run on a new LUTApplier the outcome
\* list holds exactly luts_applied records with success = true and exactly
\* errors records with success = false, clips_processed >= clips_skipped +
\* luts_applied + errors, and every step leaves the counters no smaller and the
\* records already appended as they were, in their places.
C30_CountersAndOutcomes ==
    [][CountersAgree(results) /\ CountersAgree(results') /\ OnlyGrows(results, results')]_vars

\* in the middle of a run: one record of each kind, the second appended behind
\* the first
C30_Witness ==
    /\ pc = "items"
    /\ results.luts_applied = 1
    /\ results.errors = 1
    /\ Len(results.details) = 2
    /\ results.details[1].success
    /\ ~results.details[2].success

----------------------------------------------------------------------------
(* C27 *)

\* Runs with one rule: every category, path and target node
StageRuleLists == {<<r>> : r \in RuleUniverse}

StageInit == Init /\ rules \in StageRuleLists

StageSpec == StageInit /\ [][Next]_vars

\* What the host and the file system may hold for an item beyond what the run
\* asked, up to the SetLUT call: every answer the run read is kept, every
\* answer it never asked for ("unread") may be any answer.
Worlds(c) ==
    {[c EXCEPT !.graph = g, !.count = k, !.numNodes = n, !.file = f] :
        g \in (IF c.graph = "unread" THEN {"ok", "none", "raises"} ELSE {c.graph}),
        k \in (IF c.count = "unread" THEN {"ok", "none", "raises"} ELSE {c.count}),
        n \in (IF c.count = "ok" THEN {c.numNodes} ELSE 0 .. MaxNodes),
        f \in (IF c.file = "unread" THEN {"ok", "missing", "unreadable"} ELSE {c.file})}

\* the validation stages in their order, and whether world w passes each
Stages ==
    <<"media reference", "graph", "node count", "stage >= 1", "stage <= node count",
      "resource exists", "resource readable">>

Passes(stage, w, rule) ==
    CASE stage = "media reference" -> w.media = "ok"
      [] stage = "graph" -> w.graph = "ok"
      [] stage = "node count" -> w.count = "ok"
      [] stage = "stage >= 1" -> rule.target_node >= 1
      [] stage = "stage <= node count" -> rule.target_node <= w.numNodes
      [] stage = "resource exists" -> rule.lut_path = <<>> \/ w.file # "missing"
      [] stage = "resource readable" -> rule.lut_path = <<>> \/ w.file = "ok"

\* the first stage world w fails, 0 if it passes all
FirstFailing(w, rule) ==
    LET failing == {i \in 1 .. Len(Stages) : ~Passes(Stages[i], w, rule)}
    IN  IF failing = {} THEN 0 ELSE CHOOSE i \in failing : \A m \in failing : i <= m

\* the first piece of the error a stage reports (a read that raises reports
\* the exception)
StageReport(stage, w) ==
    CASE stage = "media reference" ->
            IF w.media = "raises" THEN "Exception: "
            ELSE "Clip is a generator/title (no color grading support)"
      [] stage = "graph" ->
            IF w.graph = "raises" THEN "Exception: " ELSE "Failed to get node graph (layer 1)"
      [] stage = "node count" ->
            IF w.count = "raises" THEN "Exception: " ELSE "Failed to get node count from graph"
      [] stage = "stage >= 1" -> "Invalid target node "
      [] stage = "stage <= node count" -> "Target node "
      [] stage = "resource exists" -> "LUT file not found: "
      [] stage = "resource readable" -> "LUT file not readable: "

\* C27: _apply_lut_to_item validates in the order media reference, graph, node
\* count, stage >= 1, stage <= node count, resource exists, resource readable,
\* then issues SetLUT; the item's error reports the first failing stage only,
\* whatever the later stages would have found.
C27_FirstFailingStageReported ==
    \A j \in 1 .. Len(visited) : \A f \in 1 .. Len(rules) :
        Applying(visited[j], f) =>
            \A w \in Worlds(visited[j].clip) :
                LET k == FirstFailing(w, rules[f])
                    out == _apply_lut_to_item(w, rules[f])
                IN  IF k = 0
                    THEN /\ out.called
                         /\ Cardinality(CallsOf(visited[j].item)) = 1
                    ELSE /\ ~out.called
                         /\ ~out.success
                         /\ out.msg[1] = StageReport(Stages[k], w)
                         /\ CallsOf(visited[j].item) = {}
                         /\ EndsInError(visited[j].item)
                         /\ ErrorOf(visited[j].item) = out.msg

\* an item without a graph whose rule's target node may be out of range too,
\* and an item whose rule targets a node above the node count while the LUT
\* file may be missing
C27_Witness ==
    /\ \E j \in 1 .. Len(visited) : \E f \in 1 .. Len(rules) :
        /\ Applying(visited[j], f)
        /\ visited[j].clip.graph = "none"
        /\ \E w \in Worlds(visited[j].clip) : rules[f].target_node > w.numNodes
        /\ ErrorOf(visited[j].item) = <<"Failed to get node graph (layer 1)">>
    /\ \E j \in 1 .. Len(visited) : \E f \in 1 .. Len(rules) :
        /\ Applying(visited[j], f)
        /\ rules[f].lut_path # <<>>
        /\ rules[f].target_node > visited[j].clip.numNodes
        /\ \E w \in Worlds(visited[j].clip) : w.file = "missing"
        /\ ErrorOf(visited[j].item)[1] = "Target node "

----------------------------------------------------------------------------
(* C28 *)

\* what the registry resolves the row's LUT name to
Resolved(row) == get_lut_path_by_display_name(available_luts, row.LUTValue)

\* the rows that contribute: enabled, the LUT name resolves, the path validates
Contributing ==
    {i \in 1 .. Len(rows) :
        /\ rows[i].Checked
        /\ Resolved(rows[i]).found
        /\ validate_lut_path(fs, Resolved(rows[i]).path)}

\* the k-th contributing row, counted from the top of the form
KthContributing(k) ==
    CHOOSE i \in Contributing : Cardinality({h \in Contributing : h < i}) = k - 1

\* C28: the rule list on_apply runs with holds one rule for each enabled row
\* whose LUT name resolves and validates, and no other: the k-th rule carries
\* the category, match value, resolved path and target node of the k-th such
\* row from the top, so the rules stand in row order and a disabled row gives
\* none.
C28_RulesInRowOrder ==
    /\ RunStarted =>
        /\ Len(rules) = Cardinality(Contributing)
        /\ \A k \in 1 .. Len(rules) :
            LET row == rows[KthContributing(k)]
            IN  rules[k] = Rule(RuleClass(row.RuleType), RuleValueOf(row),
                                Resolved(row).path, row.NodeValue)
    /\ Contributing # {} => (RunStarted \/ pc = "dialog")
    /\ Contributing = {} => ~RunStarted

\* two enabled rows of different categories and LUTs gave two rules in row
\* order, and the first one won on an item both match
C28_Witness ==
    /\ RunStarted
    /\ Contributing = {1, 2}
    /\ rows[1].RuleType = "Clip Color" /\ rows[1].LUTValue = RemovalOption
    /\ rows[2].RuleType = "Codec" /\ rows[2].LUTValue = "warm.cube"
    /\ rules[1].category = "ClipColor" /\ rules[2].category = "Codec"
    /\ \E j \in 1 .. Len(visited) :
        /\ matches(rules[1], visited[j].clip) /\ matches(rules[2], visited[j].clip)
        /\ \E k \in CallsOf(visited[j].item) : calls[k].path = <<>>

\* Beside C28: an enabled row whose LUT resolves to a file that is gone gave
\* no rule, and the run has the rule of the row below it only
DroppedRow ==
    /\ RunStarted
    /\ rows[1].Checked /\ Resolved(rows[1]).found /\ 1 \notin Contributing
    /\ Len(rules) = 1

----------------------------------------------------------------------------
(* C26 *)

ItemA == <<1, 1, 1>>
ItemB == <<1, 1, 2>>
ItemC == <<1, 1, 3>>

\* The host of the scenario: one video track holding A, B and C; A has codec
\* "H.264", a media reference and a graph with a node, warm.cube exists and
\* is readable, and the host accepts the call; B has codec "ProRes" and a
\* media reference; C has no media reference.
ScenarioHost ==
    /\ listed = <<ItemA, ItemB, ItemC>>
    /\ Len(visited) = 3
    /\ \A j \in 1 .. 3 : visited[j].item = listed[j] /\ visited[j].clip.name = "ok"
    /\ LET a == visited[1].clip
       IN  /\ a.media = "ok" /\ a.codec = "H.264"
           /\ a.graph = "ok" /\ a.count = "ok" /\ a.numNodes >= 1
           /\ a.file = "ok" /\ a.setLUT = "true"
    /\ visited[2].clip.media = "ok" /\ visited[2].clip.codec = "ProRes"
    /\ visited[3].clip.media = "none"

----------------------------------------------------------------------------
(* C25 *)

\* the second run on the applier has returned
SecondRunReturned == call.op = "apply_luts" /\ pc = "returned"

\* what the first call returned, as its caller sees it now: self.results
EarlierResult == results

\* what the first call's result held when that call returned
EarlierResultAtReturn == call.ret

\* the items the second run reached: the first run reached as many as it
\* counted
LaterItems == SubSeq(visited, EarlierResultAtReturn.clips_processed + 1, Len(visited))

\* C25: the result of the first run is as it was when that run returned,
\* whatever the second run did, and the second run's result counts the items
\* of the second run only and holds their records only.
C25_ResultPerRun ==
    SecondRunReturned =>
        /\ EarlierResult = EarlierResultAtReturn
        /\ results.clips_processed = Len(LaterItems)
        /\ \A d \in 1 .. Len(results.details) :
            \E j \in 1 .. Len(LaterItems) : LaterItems[j].item = results.details[d].clip

\* Beside C25: both runs write to one dict: after the second run it counts the
\* items of both runs and holds the records of the first run, unchanged, in
\* front of those of the second.
ResultAccumulates ==
    SecondRunReturned =>
        /\ results.clips_processed = Len(visited)
        /\ OnlyGrows(EarlierResultAtReturn, results)
        /\ CountersAgree(results)

\* each of the two runs processed an item
TwoRunsWithItems ==
    /\ SecondRunReturned
    /\ EarlierResultAtReturn.clips_processed = 1
    /\ EarlierResultAtReturn.luts_applied = 1
    /\ results.clips_processed = 2
    /\ results.luts_applied = 2

----------------------------------------------------------------------------
(* C21 *)

\* rule.matches(item) was called
Matching == call.op = "matches"

\* the host's raw value of the property a rule of the category compares
RawProperty(category, item) ==
    CASE category = "Codec" -> Entry(item, "codec")
      [] category = "Resolution" -> Entry(item, "resolution")
      [] category = "FrameRate" -> Or(Entry(item, "frame_rate"), Entry(item, "fps"))
      [] category = "ClipColor" -> item.color

\* a host read a rule of the category makes for the item raises
ReadRaises(category, item) ==
    \/ item.media = "raises"
    \/ /\ item.media = "ok"
       /\ \/ category # "ClipColor" /\ item.props = "raises"
          \/ category = "ClipColor" /\ item.color.type = "raises"
          \/ /\ category = "FrameRate"
             /\ item.props = "ok"
             /\ normalize_frame_rate(RawProperty(category, item)).status # "ok"

\* the item has a media reference and the property, and every read answers
HasProperty(category, item) ==
    /\ item.media = "ok"
    /\ category # "ClipColor" => item.props = "ok"
    /\ ~ReadRaises(category, item)
    /\ Truthy(RawProperty(category, item))

\* the category's normalization: frame-rate normalization for FrameRate,
\* trimming for the others
Normalized(category, raw) ==
    IF category = "FrameRate" THEN normalize_frame_rate(raw).value
    ELSE Str(strip(str(raw)))

\* C21: for a rule of any of the four categories and an item with a media
\* reference and the property, matches is true exactly if the property, after
\* the category's normalization, equals the rule's value, character for
\* character.
C21_MatchesNormalized ==
    Matching =>
        LET rule == call.arg.rule
            item == call.arg.item
        IN  HasProperty(rule.category, item) =>
                (call.ret.value <=>
                    Normalized(rule.category, RawProperty(rule.category, item)) = rule.value)

\* Beside C21: Resolution and FrameRate rules compare the normalized property;
\* Codec and ClipColor rules compare the property as the host gives it, blanks
\* included.
MatchesPerCategory ==
    Matching =>
        LET rule == call.arg.rule
            item == call.arg.item
            raw == RawProperty(rule.category, item)
        IN  HasProperty(rule.category, item) =>
                (call.ret.value <=>
                    IF rule.category \in {"Resolution", "FrameRate"}
                    THEN Normalized(rule.category, raw) = rule.value
                    ELSE raw = rule.value)

\* a codec with a blank in front, against the rule for the codec without it
PaddedCodec ==
    /\ Matching
    /\ call.arg.rule.category = "Codec"
    /\ call.arg.rule.value = Str(H264)
    /\ call.arg.item.media = "ok"
    /\ call.arg.item.codec = Str(<<" ">> \o H264)
    /\ call.ret = Gives(FALSE)

----------------------------------------------------------------------------
(* C22 *)

\* C22: matches never raises, and returns false when the item has no media
\* reference, when the property is absent or empty, and when a host read it
\* makes raises; so a ClipColor rule does not match an item that carries its
\* colour and has no media reference.
C22_NoMatchWithoutProperty ==
    Matching =>
        LET rule == call.arg.rule
            item == call.arg.item
        IN  /\ call.ret.status = "ok"
            /\ item.media # "ok" => ~call.ret.value
            /\ ReadRaises(rule.category, item) => ~call.ret.value
            /\ (item.media = "ok" /\ ~ReadRaises(rule.category, item)
                    /\ ~Truthy(RawProperty(rule.category, item))) => ~call.ret.value

\* the rule for "Blue" on an item that is Blue and has no media reference
C22_Witness ==
    /\ Matching
    /\ call.arg.rule.category = "ClipColor"
    /\ call.arg.rule.value = Str(Blue)
    /\ call.arg.item.color = Str(Blue)
    /\ call.arg.item.media = "none"
    /\ call.ret = Gives(FALSE)

\* Beside C22: a read that raises inside matches gave False
RaisingReadGaveFalse ==
    /\ Matching
    /\ call.arg.item.media = "ok"
    /\ ReadRaises(call.arg.rule.category, call.arg.item)
    /\ call.ret = Gives(FALSE)

\* Beside C22: every record of a preview names an item with a media reference
PreviewOnlyMediaBacked ==
    \A d \in 1 .. Len(preview.matches) : ClipOf(preview.matches[d].clip).media = "ok"

----------------------------------------------------------------------------
(* C23 *)

Sets == {"codecs", "resolutions", "frame_rates", "clip_colors"}

\* C23: no discovered set holds the empty string.
C23_NoEmptyValue == \A key \in Sets : Str(<<>>) \notin discovered[key]

\* Beside C23: the sets of codecs, resolutions and clip colours never hold the
\* empty string, and the set of frame rates holds it only after an item whose
\* frame rate is a string of blanks.
EmptyOnlyFromBlankFrameRate ==
    /\ \A key \in Sets \ {"frame_rates"} : Str(<<>>) \notin discovered[key]
    /\ Str(<<>>) \in discovered.frame_rates =>
        \E j \in 1 .. Len(visited) :
            LET raw == RawProperty("FrameRate", visited[j].clip)
            IN  raw.type = "str" /\ raw.chars # <<>> /\ strip(raw.chars) = <<>>

\* items with blank codec, resolution and clip colour were scanned and the
\* scan returned
BlanksScanned ==
    /\ call.op = "scan_timelines" /\ call.ret
    /\ \E j \in 1 .. Len(visited) : visited[j].clip.codec = Str(<<" ">>)
    /\ \E j \in 1 .. Len(visited) : visited[j].clip.resolution = Str(<<" ">>)

----------------------------------------------------------------------------
(* C24 *)

\* a host call on the item raises while the scanner reads it
ItemReadFails(item) == ExtractBody(NewDiscovered, item).status # "ok"

\* the values the scanner takes from one item
ValuesOf(item) == _extract_properties_from_item(NewDiscovered, item).discovered

PartlyRead ==
    /\ call.op = "scan_timelines" /\ call.ret
    /\ Len(visited) = 1
    /\ visited[1].clip.color = Raising
    /\ discovered.codecs = {Str(H264)}
    /\ discovered.clip_colors = {}

----------------------------------------------------------------------------
(* C29 *)

\* the rule category a discovered set is offered for
CategoryOf(key) ==
    CASE key = "codecs" -> "Codec"
      [] key = "resolutions" -> "Resolution"
      [] key = "frame_rates" -> "FrameRate"
      [] key = "clip_colors" -> "ClipColor"

\* C29: every value the scanner takes from an item, used as the value of a
\* rule of the same category, makes that rule match the item.
C29_DiscoveredValueMatches ==
    \A j \in 1 .. Len(visited) : \A key \in Sets :
        \A value \in ValuesOf(visited[j].clip)[key] :
            rule_matches(Rule(CategoryOf(key), value, WarmCube, 1), visited[j].clip) = Gives(TRUE)

\* the item's codec and clip colour have no blank at either end
Unpadded(item) ==
    /\ Entry(item, "codec").chars = strip(Entry(item, "codec").chars)
    /\ item.color.type = "str" => item.color.chars = strip(item.color.chars)

\* Beside C29: the agreement holds for every item whose codec and clip colour
\* have no blank at either end, and for resolutions and frame rates always
AgreementWithoutBlanks ==
    \A j \in 1 .. Len(visited) : \A key \in Sets :
        (Unpadded(visited[j].clip) \/ key \in {"resolutions", "frame_rates"}) =>
            \A value \in ValuesOf(visited[j].clip)[key] :
                rule_matches(Rule(CategoryOf(key), value, WarmCube, 1), visited[j].clip)
                    = Gives(TRUE)

====
